---- MODULE Spec2Model ----
(***************************************************************************)
(* SHEIKE facial analysis: the scoring engine (lib/metrics.ts), the        *)
(* landmark helpers (lib/mediapipe.ts) and the quality gate                *)
(* (lib/quality.ts), modelled as state machines.                           *)
(*                                                                         *)
(* Numbers.  A JavaScript number is modelled as an exact fraction <<n, d>> *)
(* in lowest terms with d > 0, or as one of the three IEEE special values, *)
(* which are the fractions with d = 0: <<1, 0>> is +Infinity, <<-1, 0>> is *)
(* -Infinity and <<0, 0>> is NaN.  The arithmetic below follows IEEE 754   *)
(* on the special values (x / 0, 0 / 0, comparisons with NaN, Math.min and *)
(* Math.max of NaN); on finite values it is exact, so the rounding error   *)
(* of double precision and the sign of zero are not modelled.              *)
(***************************************************************************)
EXTENDS Integers, Sequences, FiniteSets, TLC

VARIABLES
    \* calculateDeviation: one call, its arguments and its result
    devValue, devRange, devResult,
    \* a region score: weights, the three component deviations, the score,
    \* and (history) the score before the last change of a deviation
    regWeights, regDeviations, regScore, regPrev,
    \* FacialMetricsCalculator: configuration, argument and result of
    \* calculateQualityScores
    baselineRanges, weightingFactors, features, scores,
    \* calculateFacialFeatures: its argument and what it returned or threw,
    \* and the scores calculateQualityScores gives for what it returned
    inputLandmarks, extracted, extractedScores,
    \* QualityValidator: its thresholds, the arguments of validateImage
    \* (with what the two analyses yield for them) and its outcome
    thresholds, qualityInput, qualityResult,
    \* analyzeImageQuality: its argument and what it resolved to or threw
    inputImage, imageMetrics,
    \* analyzeFaceQuality: its arguments and what it returned or threw
    faceLandmarks, faceImage, faceMetrics,
    \* MediaPipeFaceLandmarker: the fields of every instance, the doInitialize
    \* runs, the landmarker handles not yet closed, what the last call
    \* returned, and (history) what happened to each instance since it was
    \* constructed or disposed
    landmarkers, loads, openHandles, lmReturned, lmHistory,
    \* Capture under App: which version of the component is mounted, the
    \* state and refs of the component, the streams getUserMedia was asked
    \* for, the state of App, (history) the capture or file processed last,
    \* the image or file being loaded, and a bit that flips at every call of
    \* captureImage
    component, ui, streams, app, capture, pending, captureTick,
    \* extractEXIFOrientation: its argument, where the call is, the offset of
    \* the marker loop, and what the call resolved to
    exifFile, exifPc, markerOffset, exifResult

devVars == <<devValue, devRange, devResult>>
regVars == <<regWeights, regDeviations, regScore, regPrev>>
scoreVars == <<baselineRanges, weightingFactors, features, scores>>
featVars == <<inputLandmarks, extracted, extractedScores>>
qualityVars == <<thresholds, qualityInput, qualityResult>>
imageVars == <<inputImage, imageMetrics>>
faceVars == <<faceLandmarks, faceImage, faceMetrics>>
landmarkerVars == <<landmarkers, loads, openHandles, lmReturned, lmHistory>>
captureVars == <<component, ui, streams, app, capture, pending, captureTick>>
exifVars == <<exifFile, exifPc, markerOffset, exifResult>>
appVars == <<landmarkerVars, captureVars, exifVars>>
analysisVars == <<imageVars, faceVars, appVars>>
vars == <<devVars, regVars, scoreVars, featVars, qualityVars, analysisVars>>

\* A call that has not returned yet.
Pending == [pending |-> TRUE]

(***************************************************************************)
(* JavaScript number arithmetic                                            *)
(***************************************************************************)
IntAbs(n) == IF n < 0 THEN -n ELSE n

IntSign(n) == IF n > 0 THEN 1 ELSE IF n < 0 THEN -1 ELSE 0

RECURSIVE GCD(_, _)
GCD(a, b) == IF b = 0 THEN a ELSE GCD(b, a % b)

\* The number n / d, in lowest terms; d = 0 gives the special values.
Num(n, d) ==
    IF d = 0 THEN <<IntSign(n), 0>>
    ELSE LET g == GCD(IntAbs(n), IntAbs(d))
             s == IntSign(d)
         IN  <<(s * n) \div g, IntAbs(d) \div g>>

Whole(n) == <<n, 1>>
NaN == <<0, 0>>
PosInf == <<1, 0>>
NegInf == <<-1, 0>>
Zero == Whole(0)
One == Whole(1)

IsNaN(a) == a = NaN
IsFinite(a) == a[2] # 0

Neg(a) == <<-a[1], a[2]>>

\* a + b
Add(a, b) ==
    IF IsNaN(a) \/ IsNaN(b) THEN NaN
    ELSE IF a[2] = 0 /\ b[2] = 0 THEN (IF a[1] = b[1] THEN a ELSE NaN)
    ELSE IF a[2] = 0 THEN a
    ELSE IF b[2] = 0 THEN b
    ELSE LET g == GCD(a[2], b[2])
         IN  Num(a[1] * (b[2] \div g) + b[1] * (a[2] \div g), (a[2] \div g) * b[2])

\* a - b
Sub(a, b) == Add(a, Neg(b))

\* a * b
Mul(a, b) ==
    IF a[2] = 0 \/ b[2] = 0 THEN <<IntSign(a[1]) * IntSign(b[1]), 0>>
    ELSE LET g1 == GCD(IntAbs(a[1]), b[2])
             g2 == GCD(IntAbs(b[1]), a[2])
         IN  Num((a[1] \div g1) * (b[1] \div g2), (a[2] \div g2) * (b[2] \div g1))

\* a / b: a finite number over zero is an infinity, 0 / 0 is NaN
Div(a, b) ==
    IF IsNaN(a) \/ IsNaN(b) THEN NaN
    ELSE IF b[2] = 0 THEN (IF a[2] = 0 THEN NaN ELSE Zero)
    ELSE IF b[1] = 0 THEN <<IntSign(a[1]), 0>>
    ELSE Mul(a, <<IntSign(b[1]) * b[2], IntAbs(b[1])>>)

\* a < b; false when either side is NaN
Lt(a, b) ==
    /\ ~IsNaN(a)
    /\ ~IsNaN(b)
    /\ IF a[2] # 0 /\ b[2] # 0 THEN a[1] * b[2] < b[1] * a[2]
       ELSE IF a[2] = 0 /\ b[2] = 0 THEN a[1] < b[1]
       ELSE IF a[2] = 0 THEN a[1] < 0
       ELSE b[1] > 0

\* a <= b; false when either side is NaN
Le(a, b) == ~IsNaN(a) /\ ~IsNaN(b) /\ (a = b \/ Lt(a, b))

Gt(a, b) == Lt(b, a)
Ge(a, b) == Le(b, a)

\* Math.abs
JsAbs(a) == <<IntAbs(a[1]), a[2]>>

\* Math.min and Math.max: NaN when either argument is NaN
JsMin(a, b) == IF IsNaN(a) \/ IsNaN(b) THEN NaN ELSE IF Le(a, b) THEN a ELSE b

JsMax(a, b) == IF IsNaN(a) \/ IsNaN(b) THEN NaN ELSE IF Le(a, b) THEN b ELSE a

\* Math.round: the nearest integer, ties towards +Infinity; NaN and the
\* infinities are returned unchanged
JsRound(a) == IF a[2] = 0 THEN a ELSE Whole((2 * a[1] + a[2]) \div (2 * a[2]))

(***************************************************************************)
(* Square roots and angles.  The landmark sets of the model place their    *)
(* points so that every distance is rational and every direction is a      *)
(* multiple of 90 degrees; the operators below are exact there and are     *)
(* undefined (evaluation stops with an error) anywhere else.               *)
(***************************************************************************)
RECURSIVE RootBetween(_, _, _)
RootBetween(n, lo, hi) ==
    IF lo >= hi THEN lo
    ELSE LET mid == (lo + hi + 1) \div 2
         IN  IF mid * mid <= n THEN RootBetween(n, mid, hi) ELSE RootBetween(n, lo, mid - 1)

\* The integer whose square is n (46340 is the largest integer whose square
\* fits in 32 bits).
Root(n) == CHOOSE k \in {RootBetween(n, 0, IF n < 46340 THEN n ELSE 46340)} : k * k = n

\* Math.sqrt of a non-negative number
JsSqrt(a) == IF a[2] = 0 THEN a ELSE <<Root(a[1]), Root(a[2])>>

\* Math.atan2(dy, dx) * (180 / Math.PI)
Atan2Degrees(dy, dx) ==
    CASE dy = Zero /\ Ge(dx, Zero) -> Zero
      [] dy = Zero /\ Lt(dx, Zero) -> Whole(180)
      [] dx = Zero /\ Gt(dy, Zero) -> Whole(90)
      [] dx = Zero /\ Lt(dy, Zero) -> Whole(-90)

\* Math.acos(c) * (180 / Math.PI)
AcosDegrees(c) ==
    CASE c = One -> Zero
      [] c = Zero -> Whole(90)
      [] c = Whole(-1) -> Whole(180)

(***************************************************************************)
(* Landmarks (lib/mediapipe.ts)                                            *)
(***************************************************************************)
\* Index lists are JavaScript arrays: At(list, 0) is the first element.
At(list, i) == list[i + 1]

LANDMARK_INDICES ==
    [LEFT_EYE      |-> <<33, 7, 163, 144, 145, 153, 154, 155, 133, 173, 157, 158, 159, 160, 161, 246>>,
     RIGHT_EYE     |-> <<362, 382, 381, 380, 374, 373, 390, 249, 263, 466, 388, 387, 386, 385, 384, 398>>,
     NOSE_TIP      |-> <<1, 2, 5, 4, 6, 19, 20, 94, 125, 141, 235, 236, 237, 238, 239, 240, 241, 242>>,
     NOSE_BRIDGE   |-> <<6, 9, 10, 151, 195, 197, 196, 3, 51, 48, 115, 131, 134, 102, 49, 220>>,
     NOSTRIL_LEFT  |-> <<235, 31, 228, 229, 230, 231, 232, 233, 244, 245, 122, 6, 202, 214, 234>>,
     NOSTRIL_RIGHT |-> <<455, 462, 459, 458, 457, 456, 448, 449, 451, 452, 453, 464, 435, 410, 454>>,
     JAW_LEFT      |-> <<172, 136, 150, 149, 176, 148, 152, 377, 400, 378, 379, 365, 397, 288, 361, 323>>,
     JAW_RIGHT     |-> <<397, 365, 379, 378, 400, 377, 152, 148, 176, 149, 150, 136, 172, 58, 132, 93>>,
     CHIN          |-> <<18, 175, 199, 200, 9, 10, 151, 175, 18, 175, 199, 200, 9, 10, 151>>,
     FACE_OUTLINE  |-> <<10, 338, 297, 332, 284, 251, 389, 356, 454, 323, 361, 288, 397, 365, 379,
                         378, 400, 377, 152, 148, 176, 149, 150, 136, 172, 58, 132, 93, 234, 127,
                         162, 21, 54, 103, 67, 109>>]

\* landmarks[index] of a landmark array that holds no point.
Undefined == [undefined |-> TRUE]

\* A landmark array is described by its length, the indices below its
\* length that hold undefined instead of a point, the placement of its
\* points and the z every point carries (Absent for none):
\*   "row"    point i is (i / GridSize, 1/2): all on one horizontal line
\*   "column" point i is (1/2, i / GridSize): all on one vertical line
\*   "spot"   every point is (1/2, 1/2)
\*   "wide"   point i is (2i / GridSize, 1/2): a row that leaves the image
GridSize == 512

LandmarkAt(landmarks, index) ==
    IF index >= landmarks.length \/ index \in landmarks.missing THEN Undefined
    ELSE LET along == Num(index, GridSize)
             half  == Num(1, 2)
         IN  [x |-> IF landmarks.placement = "row" THEN along
                    ELSE IF landmarks.placement = "wide" THEN Mul(Whole(2), along)
                    ELSE half,
              y |-> IF landmarks.placement = "column" THEN along ELSE half,
              z |-> landmarks.z]

\* extractLandmarksByIndices throws when an index holds no point.
extractLandmarksByIndicesThrows(landmarks, indices) ==
    \E k \in 1..Len(indices) : LandmarkAt(landmarks, indices[k]) = Undefined

\* extractLandmarksByIndices(landmarks, indices), when it does not throw
extractLandmarksByIndices(landmarks, indices) ==
    [k \in 1..Len(indices) |-> LandmarkAt(landmarks, indices[k])]

\* calculateDistance(point1, point2)
calculateDistance(point1, point2) ==
    LET dx == Sub(point1.x, point2.x)
        dy == Sub(point1.y, point2.y)
    IN  JsSqrt(Add(Mul(dx, dx), Mul(dy, dy)))

\* calculateAngle(point1, center, point2)
calculateAngle(point1, center, point2) ==
    LET v1x  == Sub(point1.x, center.x)
        v1y  == Sub(point1.y, center.y)
        v2x  == Sub(point2.x, center.x)
        v2y  == Sub(point2.y, center.y)
        dot  == Add(Mul(v1x, v2x), Mul(v1y, v2y))
        mag1 == JsSqrt(Add(Mul(v1x, v1x), Mul(v1y, v1y)))
        mag2 == JsSqrt(Add(Mul(v2x, v2x), Mul(v2y, v2y)))
    IN  IF mag1 = Zero \/ mag2 = Zero THEN Zero
        ELSE AcosDegrees(JsMax(Whole(-1), JsMin(One, Div(dot, Mul(mag1, mag2)))))

\* An optional number that is not there.
Absent == <<>>

\* z ?? 0
ZOrZero(point) == IF point.z = Absent THEN Zero ELSE point.z

(***************************************************************************)
(* Scoring engine: FacialMetricsCalculator (lib/metrics.ts)                *)
(***************************************************************************)
DEFAULT_BASELINE_RANGES ==
    [eyes |-> [aspectRatio |-> <<Num(28, 10), Num(32, 10)>>,
               symmetry    |-> <<Num(9, 10), Num(11, 10)>>,
               tilt        |-> <<Whole(-5), Whole(5)>>],
     nose |-> [widthRatio  |-> <<Num(75, 100), Num(85, 100)>>,
               projection  |-> <<Num(67, 100), Num(75, 100)>>,
               symmetry    |-> <<Num(9, 10), Num(11, 10)>>],
     jaw  |-> [angle       |-> <<Whole(120), Whole(130)>>,
               chinRatio   |-> <<Num(85, 100), Num(95, 100)>>,
               asymmetry   |-> <<Num(95, 100), Num(105, 100)>>]]

DEFAULT_WEIGHTING_FACTORS ==
    [eyes |-> [aspectRatio |-> Num(40, 100), symmetry   |-> Num(35, 100), tilt      |-> Num(25, 100)],
     nose |-> [width       |-> Num(40, 100), projection |-> Num(35, 100), symmetry  |-> Num(25, 100)],
     jaw  |-> [angle       |-> Num(45, 100), projection |-> Num(30, 100), asymmetry |-> Num(25, 100)]]

\* The landmark count calculateFacialFeatures requires.
RequiredLandmarks == 468

\* calculateCentroid(landmarks): the mean of x and y (z is not read by any
\* caller)
calculateCentroid(points) ==
    LET RECURSIVE SumX(_)
        SumX(k) == IF k = 0 THEN Zero ELSE Add(SumX(k - 1), points[k].x)
        RECURSIVE SumY(_)
        SumY(k) == IF k = 0 THEN Zero ELSE Add(SumY(k - 1), points[k].y)
    IN  [x |-> Div(SumX(Len(points)), Whole(Len(points))),
         y |-> Div(SumY(Len(points)), Whole(Len(points)))]

\* calculateSingleEyeMetrics(eyeLandmarks); the landmarks field is left out
calculateSingleEyeMetrics(eyeLandmarks) ==
    LET leftCorner  == At(eyeLandmarks, 0)
        rightCorner == At(eyeLandmarks, 8)
        width       == calculateDistance(leftCorner, rightCorner)
        topPoint    == At(eyeLandmarks, 4)
        bottomPoint == At(eyeLandmarks, 12)
        height      == calculateDistance(topPoint, bottomPoint)
    IN  [width       |-> width,
         height      |-> height,
         aspectRatio |-> Div(width, height),
         tilt        |-> Atan2Degrees(Sub(rightCorner.y, leftCorner.y),
                                      Sub(rightCorner.x, leftCorner.x))]

calculateEyeMetricsThrows(landmarks) ==
    \/ extractLandmarksByIndicesThrows(landmarks, LANDMARK_INDICES.LEFT_EYE)
    \/ extractLandmarksByIndicesThrows(landmarks, LANDMARK_INDICES.RIGHT_EYE)

calculateEyeMetrics(landmarks) ==
    LET leftEyeLandmarks  == extractLandmarksByIndices(landmarks, LANDMARK_INDICES.LEFT_EYE)
        rightEyeLandmarks == extractLandmarksByIndices(landmarks, LANDMARK_INDICES.RIGHT_EYE)
        leftEye           == calculateSingleEyeMetrics(leftEyeLandmarks)
        rightEye          == calculateSingleEyeMetrics(rightEyeLandmarks)
    IN  [leftEye  |-> leftEye,
         rightEye |-> rightEye,
         interPupillaryDistance |->
             calculateDistance(calculateCentroid(leftEyeLandmarks),
                               calculateCentroid(rightEyeLandmarks)),
         eyeSymmetry |-> Div(leftEye.width, rightEye.width)]

\* calculateNostrilWidth(nostrilLandmarks)
calculateNostrilWidth(nostrilLandmarks) ==
    calculateDistance(At(nostrilLandmarks, 0), At(nostrilLandmarks, 8))

calculateNoseMetricsThrows(landmarks) ==
    \/ extractLandmarksByIndicesThrows(landmarks, LANDMARK_INDICES.NOSE_TIP)
    \/ extractLandmarksByIndicesThrows(landmarks, LANDMARK_INDICES.NOSE_BRIDGE)
    \/ extractLandmarksByIndicesThrows(landmarks, LANDMARK_INDICES.NOSTRIL_LEFT)
    \/ extractLandmarksByIndicesThrows(landmarks, LANDMARK_INDICES.NOSTRIL_RIGHT)

calculateNoseMetrics(landmarks) ==
    LET noseTipLandmarks      == extractLandmarksByIndices(landmarks, LANDMARK_INDICES.NOSE_TIP)
        noseBridgeLandmarks   == extractLandmarksByIndices(landmarks, LANDMARK_INDICES.NOSE_BRIDGE)
        leftNostrilLandmarks  == extractLandmarksByIndices(landmarks, LANDMARK_INDICES.NOSTRIL_LEFT)
        rightNostrilLandmarks == extractLandmarksByIndices(landmarks, LANDMARK_INDICES.NOSTRIL_RIGHT)
        noseTip               == At(noseTipLandmarks, 0)
    IN  [width           |-> calculateDistance(At(leftNostrilLandmarks, 0), At(rightNostrilLandmarks, 0)),
         length          |-> calculateDistance(At(noseBridgeLandmarks, 0), noseTip),
         tipProjection   |-> ZOrZero(noseTip),
         bridgeWidth     |-> calculateDistance(At(noseBridgeLandmarks, 4), At(noseBridgeLandmarks, 12)),
         nostrilSymmetry |-> Div(calculateNostrilWidth(leftNostrilLandmarks),
                                 calculateNostrilWidth(rightNostrilLandmarks))]

\* Faulty variant: the chin width is measured between two different
\* landmarks, CHIN[4] and CHIN[5].
calculateChinWidth_DistinctPoints(chinLandmarks) ==
    calculateDistance(At(chinLandmarks, 4), At(chinLandmarks, 5))

\* calculateChinWidth(chinLandmarks)
calculateChinWidth(chinLandmarks) ==
    calculateDistance(At(chinLandmarks, 4), At(chinLandmarks, 12))

\* calculateJawSideSize(jawSideLandmarks): the length of the path through
\* the points in order
calculateJawSideSize(jawSideLandmarks) ==
    LET RECURSIVE Perimeter(_)
        Perimeter(i) ==
            IF i = 0 THEN Zero
            ELSE Add(Perimeter(i - 1),
                     calculateDistance(jawSideLandmarks[i], jawSideLandmarks[i + 1]))
    IN  Perimeter(Len(jawSideLandmarks) - 1)

calculateJawMetricsThrows(landmarks) ==
    \/ extractLandmarksByIndicesThrows(landmarks, LANDMARK_INDICES.JAW_LEFT)
    \/ extractLandmarksByIndicesThrows(landmarks, LANDMARK_INDICES.JAW_RIGHT)
    \/ extractLandmarksByIndicesThrows(landmarks, LANDMARK_INDICES.CHIN)

calculateJawMetrics(landmarks) ==
    LET leftJawLandmarks  == extractLandmarksByIndices(landmarks, LANDMARK_INDICES.JAW_LEFT)
        rightJawLandmarks == extractLandmarksByIndices(landmarks, LANDMARK_INDICES.JAW_RIGHT)
        chinLandmarks     == extractLandmarksByIndices(landmarks, LANDMARK_INDICES.CHIN)
        leftJawPoint      == At(leftJawLandmarks, 0)
        rightJawPoint     == At(rightJawLandmarks, 0)
        width             == calculateDistance(leftJawPoint, rightJawPoint)
        chinPoint         == At(chinLandmarks, 0)
    IN  [width          |-> width,
         angle          |-> calculateAngle(leftJawPoint, chinPoint, rightJawPoint),
         chinProjection |-> ZOrZero(chinPoint),
         lowerFaceRatio |-> Div(calculateChinWidth(chinLandmarks), width),
         asymmetry      |-> Div(calculateJawSideSize(leftJawLandmarks),
                                calculateJawSideSize(rightJawLandmarks))]

\* Faulty variant: the landmark count is not checked before the regions are
\* measured, so a short array fails inside the measurement.
calculateFacialFeatures_NoCountCheck(landmarks) ==
    IF \/ calculateEyeMetricsThrows(landmarks)
       \/ calculateNoseMetricsThrows(landmarks)
       \/ calculateJawMetricsThrows(landmarks)
    THEN [thrown |-> TRUE, code |-> "CALCULATION_ERROR", feature |-> "general"]
    ELSE [thrown   |-> FALSE,
          features |-> [eyes |-> calculateEyeMetrics(landmarks),
                        nose |-> calculateNoseMetrics(landmarks),
                        jaw  |-> calculateJawMetrics(landmarks)]]

\* calculateFacialFeatures(landmarks): the FacialFeatures it returns, or the
\* MetricsCalculationError it throws
calculateFacialFeatures(landmarks) ==
    IF landmarks.length < RequiredLandmarks
    THEN [thrown |-> TRUE, code |-> "INSUFFICIENT_LANDMARKS", feature |-> "general"]
    ELSE IF \/ calculateEyeMetricsThrows(landmarks)
            \/ calculateNoseMetricsThrows(landmarks)
            \/ calculateJawMetricsThrows(landmarks)
    THEN [thrown |-> TRUE, code |-> "CALCULATION_ERROR", feature |-> "general"]
    ELSE [thrown   |-> FALSE,
          features |-> [eyes |-> calculateEyeMetrics(landmarks),
                        nose |-> calculateNoseMetrics(landmarks),
                        jaw  |-> calculateJawMetrics(landmarks)]]

\* Faulty variant: the deviation is not capped at 1.
calculateDeviation_Uncapped(value, idealRange) ==
    LET min == idealRange[1]
        max == idealRange[2]
    IN  IF Ge(value, min) /\ Le(value, max) THEN Zero
        ELSE Div(JsAbs(Sub(value, Div(Add(min, max), Whole(2)))), Sub(max, min))

\* Faulty variant: the band is taken as open, so its edges are outside.
calculateDeviation_Strict(value, idealRange) ==
    LET min == idealRange[1]
        max == idealRange[2]
    IN  IF Gt(value, min) /\ Lt(value, max) THEN Zero
        ELSE JsMin(Div(JsAbs(Sub(value, Div(Add(min, max), Whole(2)))), Sub(max, min)), One)

\* calculateDeviation(value, idealRange)
calculateDeviation(value, idealRange) ==
    LET min == idealRange[1]
        max == idealRange[2]
    IN  IF Ge(value, min) /\ Le(value, max) THEN Zero
        ELSE LET center    == Div(Add(min, max), Whole(2))
                 rangeSize == Sub(max, min)
                 deviation == Div(JsAbs(Sub(value, center)), rangeSize)
             IN  JsMin(deviation, One)

\* Faulty variant: 100 * weightedDeviation instead of 100 * (1 - weightedDeviation).
deviationToScore_NoComplement(weightedDeviation) ==
    JsMax(Zero, JsMin(Whole(100), Mul(Whole(100), weightedDeviation)))

\* deviationToScore(weightedDeviation)
deviationToScore(weightedDeviation) ==
    LET score == Mul(Whole(100), Sub(One, weightedDeviation))
    IN  JsMax(Zero, JsMin(Whole(100), score))

\* w1 * d1 + w2 * d2 + w3 * d3, evaluated left to right as the source does
weightedDeviation(w, d) ==
    Add(Add(Mul(w[1], d[1]), Mul(w[2], d[2])), Mul(w[3], d[3]))

\* The three deviations calculateEyeScore computes from the eye metrics.
eyeDeviations(eyeMetrics, ranges) ==
    <<calculateDeviation(
          Div(Add(eyeMetrics.leftEye.aspectRatio, eyeMetrics.rightEye.aspectRatio), Whole(2)),
          ranges.eyes.aspectRatio),
      calculateDeviation(eyeMetrics.eyeSymmetry, ranges.eyes.symmetry),
      calculateDeviation(
          Div(Add(JsAbs(eyeMetrics.leftEye.tilt), JsAbs(eyeMetrics.rightEye.tilt)), Whole(2)),
          ranges.eyes.tilt)>>

calculateEyeScore(eyeMetrics, ranges, weights) ==
    deviationToScore(weightedDeviation(
        <<weights.eyes.aspectRatio, weights.eyes.symmetry, weights.eyes.tilt>>,
        eyeDeviations(eyeMetrics, ranges)))

\* The three deviations calculateNoseScore computes from the nose metrics.
noseDeviations(noseMetrics, ranges) ==
    LET normalizedWidth == Div(noseMetrics.width, noseMetrics.bridgeWidth)
    IN  <<calculateDeviation(normalizedWidth, ranges.nose.widthRatio),
          calculateDeviation(JsAbs(noseMetrics.tipProjection), ranges.nose.projection),
          calculateDeviation(noseMetrics.nostrilSymmetry, ranges.nose.symmetry)>>

calculateNoseScore(noseMetrics, ranges, weights) ==
    deviationToScore(weightedDeviation(
        <<weights.nose.width, weights.nose.projection, weights.nose.symmetry>>,
        noseDeviations(noseMetrics, ranges)))

\* The three deviations calculateJawScore computes from the jaw metrics.
jawDeviations(jawMetrics, ranges) ==
    <<calculateDeviation(jawMetrics.angle, ranges.jaw.angle),
      calculateDeviation(jawMetrics.lowerFaceRatio, ranges.jaw.chinRatio),
      calculateDeviation(jawMetrics.asymmetry, ranges.jaw.asymmetry)>>

calculateJawScore(jawMetrics, ranges, weights) ==
    deviationToScore(weightedDeviation(
        <<weights.jaw.angle, weights.jaw.projection, weights.jaw.asymmetry>>,
        jawDeviations(jawMetrics, ranges)))

\* Faulty variant: overall is computed from the rounded region scores.
calculateQualityScores_RoundFirst(f, ranges, weights) ==
    LET eyeScore  == JsRound(calculateEyeScore(f.eyes, ranges, weights))
        noseScore == JsRound(calculateNoseScore(f.nose, ranges, weights))
        jawScore  == JsRound(calculateJawScore(f.jaw, ranges, weights))
    IN  [eyes    |-> eyeScore,
         nose    |-> noseScore,
         jaw     |-> jawScore,
         overall |-> JsRound(Div(Add(Add(eyeScore, noseScore), jawScore), Whole(3)))]

\* calculateQualityScores(features): overall is computed from the region
\* scores before they are rounded
calculateQualityScores(f, ranges, weights) ==
    LET eyeScore  == calculateEyeScore(f.eyes, ranges, weights)
        noseScore == calculateNoseScore(f.nose, ranges, weights)
        jawScore  == calculateJawScore(f.jaw, ranges, weights)
        overall   == Div(Add(Add(eyeScore, noseScore), jawScore), Whole(3))
    IN  [eyes    |-> JsRound(eyeScore),
         nose    |-> JsRound(noseScore),
         jaw     |-> JsRound(jawScore),
         overall |-> JsRound(overall)]

(***************************************************************************)
(* Quality gate: QualityValidator (lib/quality.ts)                         *)
(***************************************************************************)
DEFAULT_QUALITY_THRESHOLDS ==
    [faceAngle    |-> [maxYaw |-> Whole(15), maxPitch |-> Whole(15), maxRoll |-> Whole(10)],
     brightness   |-> [min |-> Whole(80), max |-> Whole(200)],
     contrast     |-> [min |-> Whole(30)],
     blur         |-> [max |-> Num(1, 10)],
     faceSize     |-> [minWidth |-> Num(3, 10), minHeight |-> Num(4, 10),
                       maxWidth |-> Num(8, 10), maxHeight |-> Num(9, 10)],
     facePosition |-> [centerTolerance |-> Num(15, 100)]]

\* The sum a loop accumulates over a list of numbers, starting from 0.
RECURSIVE SumOf(_)
SumOf(numbers) ==
    IF Len(numbers) = 0 THEN Zero
    ELSE Add(SumOf(SubSeq(numbers, 1, Len(numbers) - 1)), numbers[Len(numbers)])

\* An image element is described by its kind ("image" for an
\* HTMLImageElement, "canvas" for an HTMLCanvasElement), its natural width
\* and height in pixels, whether a 2d context can be had, and its pixels:
\*   "uniform" every pixel has the colour a
\*   "halves"  the first half of the pixels, row by row, has the colour a
\*             and the second half the colour b
\* A colour is <<r, g, b>>; every pixel is opaque.
PixelAt(imageElement, k) ==
    IF imageElement.pattern = "halves" /\ 2 * k >= imageElement.width * imageElement.height
    THEN imageElement.b
    ELSE imageElement.a

\* 0.299 * r + 0.587 * g + 0.114 * b
Luminance(colour) ==
    Add(Add(Mul(Num(299, 1000), Whole(colour[1])), Mul(Num(587, 1000), Whole(colour[2]))),
        Mul(Num(114, 1000), Whole(colour[3])))

\* The pixels of the buffer in the order the loops visit them.
PixelNumbers(imageElement) ==
    [k \in 1..(imageElement.width * imageElement.height) |-> k - 1]

\* The interior pixels <<x, y>> in the order the loops of estimateBlur
\* visit them: y from 1 to height - 2, x from 1 to width - 2.
InteriorPixels(width, height) ==
    IF width < 3 \/ height < 3 THEN <<>>
    ELSE [k \in 1..((width - 2) * (height - 2)) |->
             <<1 + ((k - 1) % (width - 2)), 1 + ((k - 1) \div (width - 2))>>]

\* estimateBlur(pixels, width, height): only the red channel is read
estimateBlur(imageElement) ==
    LET width  == imageElement.width
        height == imageElement.height
        red(x, y) == PixelAt(imageElement, y * width + x)[1]
        visited == InteriorPixels(width, height)
        edgeStrength(xy) ==
            Whole(IntAbs(red(xy[1], xy[2]) - red(xy[1] + 1, xy[2]))
                  + IntAbs(red(xy[1], xy[2]) - red(xy[1], xy[2] + 1)))
        edgeSum == SumOf([k \in 1..Len(visited) |-> edgeStrength(visited[k])])
        edgeCount == Whole(Len(visited))
        averageEdge == Div(edgeSum, edgeCount)
    IN  JsMax(Zero, JsMin(One, Sub(One, Div(averageEdge, Whole(255)))))

\* calculateSaturation(pixels)
calculateSaturation(imageElement) ==
    LET numbers == PixelNumbers(imageElement)
        Highest(c) == IF c[1] >= c[2] /\ c[1] >= c[3] THEN c[1]
                      ELSE IF c[2] >= c[3] THEN c[2] ELSE c[3]
        Lowest(c) == IF c[1] <= c[2] /\ c[1] <= c[3] THEN c[1]
                     ELSE IF c[2] <= c[3] THEN c[2] ELSE c[3]
        saturation(c) == IF Highest(c) = 0 THEN Zero
                         ELSE Div(Whole(Highest(c) - Lowest(c)), Whole(Highest(c)))
        totalSaturation ==
            SumOf([k \in 1..Len(numbers) |-> saturation(PixelAt(imageElement, numbers[k]))])
    IN  Mul(Div(totalSaturation, Whole(Len(numbers))), Whole(255))

\* The pixels <<x, y>> estimateNoise samples: every fourth interior pixel
\* in each direction, starting at <<1, 1>>.
SampledPixels(width, height) ==
    IF width < 3 \/ height < 3 THEN <<>>
    ELSE LET across == 1 + ((width - 3) \div 4)
             down   == 1 + ((height - 3) \div 4)
         IN  [k \in 1..(across * down) |->
                 <<1 + 4 * ((k - 1) % across), 1 + 4 * ((k - 1) \div across)>>]

\* estimateNoise(pixels, width, height)
estimateNoise(imageElement) ==
    LET width == imageElement.width
        sampled == SampledPixels(width, imageElement.height)
        neighbours(xy) ==
            [k \in 1..9 |->
                Luminance(PixelAt(imageElement,
                                  (xy[2] + ((k - 1) \div 3) - 1) * width
                                      + (xy[1] + ((k - 1) % 3) - 1)))]
        variance(xy) ==
            LET mean == Div(SumOf(neighbours(xy)), Whole(9))
            IN  Div(SumOf([k \in 1..9 |->
                              Mul(Sub(neighbours(xy)[k], mean), Sub(neighbours(xy)[k], mean))]),
                    Whole(9))
        totalVariance == SumOf([k \in 1..Len(sampled) |-> variance(sampled[k])])
    IN  Div(totalVariance, Whole(Len(sampled)))

\* An analysis that throws the named error instead of returning metrics.
Failed(error) == [thrown |-> TRUE, error |-> error]

\* analyzeImageQuality(imageElement): the ImageQualityMetrics it resolves
\* to, or the error it throws.  The canvas behaves as the HTML standard
\* says: drawImage throws InvalidStateError for a source canvas without
\* area and draws nothing for an image without area, and getImageData
\* throws IndexSizeError for a rectangle without area.
analyzeImageQuality(imageElement) ==
    LET width == imageElement.width
        height == imageElement.height
    IN  IF ~imageElement.context
        THEN Failed("Could not get canvas context for image analysis")
        ELSE IF imageElement.kind = "canvas" /\ (width = 0 \/ height = 0)
        THEN Failed("InvalidStateError")
        ELSE IF width = 0 \/ height = 0
        THEN Failed("IndexSizeError")
        ELSE LET numbers == PixelNumbers(imageElement)
                 luminance(k) == Luminance(PixelAt(imageElement, numbers[k]))
                 pixelCount == Whole(Len(numbers))
                 totalBrightness == SumOf([k \in 1..Len(numbers) |-> luminance(k)])
                 brightness == Div(totalBrightness, pixelCount)
                 varianceSum ==
                     SumOf([k \in 1..Len(numbers) |->
                               Mul(Sub(luminance(k), brightness), Sub(luminance(k), brightness))])
                 contrast == JsSqrt(Div(varianceSum, pixelCount))
             IN  [thrown     |-> FALSE,
                  brightness |-> brightness,
                  contrast   |-> contrast,
                  blur       |-> estimateBlur(imageElement),
                  saturation |-> calculateSaturation(imageElement),
                  noise      |-> estimateNoise(imageElement)]

\* landmarks[index].visibility: the points whose index is in
\* landmarks.dimmed carry the visibility landmarks.visibility, every other
\* point carries none.
VisibilityAt(landmarks, index) ==
    IF index \in landmarks.dimmed THEN landmarks.visibility ELSE Absent

\* calculateFaceAngles(faceOutline)
calculateFaceAngles(faceOutline) ==
    LET leftPoint == At(faceOutline, 0)
        rightPoint == At(faceOutline, 16)
        topPoint == At(faceOutline, 8)
        bottomPoint == At(faceOutline, 24)
    IN  IF leftPoint = Undefined \/ rightPoint = Undefined
           \/ topPoint = Undefined \/ bottomPoint = Undefined
        THEN [yaw |-> Zero, pitch |-> Zero, roll |-> Zero]
        ELSE LET roll == Atan2Degrees(Sub(rightPoint.y, leftPoint.y),
                                      Sub(rightPoint.x, leftPoint.x))
                 centerX == Div(Add(leftPoint.x, rightPoint.x), Whole(2))
                 yaw == Mul(Sub(centerX, Num(1, 2)), Whole(60))
                 centerY == Div(Add(topPoint.y, bottomPoint.y), Whole(2))
                 pitch == Mul(Sub(centerY, Num(1, 2)), Whole(40))
             IN  [yaw |-> yaw, pitch |-> pitch, roll |-> roll]

\* calculateFaceBoundingBox reads x of every element of the array, so it
\* throws a TypeError when one of them is undefined.
calculateFaceBoundingBoxThrows(landmarks) ==
    \E index \in 0..(landmarks.length - 1) : LandmarkAt(landmarks, index) = Undefined

\* calculateFaceBoundingBox(landmarks), when it does not throw.  The loop
\* folds Math.min and Math.max over the array from the infinities; the
\* folds are taken here over the two halves of the array, which gives the
\* same numbers.
calculateFaceBoundingBox(landmarks) ==
    LET RECURSIVE minX(_, _)
        minX(from, to) ==
            IF from > to THEN PosInf
            ELSE IF from = to THEN JsMin(PosInf, LandmarkAt(landmarks, from).x)
            ELSE JsMin(minX(from, (from + to) \div 2), minX((from + to) \div 2 + 1, to))
        RECURSIVE maxX(_, _)
        maxX(from, to) ==
            IF from > to THEN NegInf
            ELSE IF from = to THEN JsMax(NegInf, LandmarkAt(landmarks, from).x)
            ELSE JsMax(maxX(from, (from + to) \div 2), maxX((from + to) \div 2 + 1, to))
        RECURSIVE minY(_, _)
        minY(from, to) ==
            IF from > to THEN PosInf
            ELSE IF from = to THEN JsMin(PosInf, LandmarkAt(landmarks, from).y)
            ELSE JsMin(minY(from, (from + to) \div 2), minY((from + to) \div 2 + 1, to))
        RECURSIVE maxY(_, _)
        maxY(from, to) ==
            IF from > to THEN NegInf
            ELSE IF from = to THEN JsMax(NegInf, LandmarkAt(landmarks, from).y)
            ELSE JsMax(maxY(from, (from + to) \div 2), maxY((from + to) \div 2 + 1, to))
        last == landmarks.length - 1
    IN  [left   |-> minX(0, last),
         top    |-> minY(0, last),
         width  |-> Sub(maxX(0, last), minX(0, last)),
         height |-> Sub(maxY(0, last), minY(0, last))]

\* The indices calculateFaceCompleteness looks at: the first four of each
\* eye, of the nose tip and of the chin.
keyLandmarkIndices ==
    SubSeq(LANDMARK_INDICES.LEFT_EYE, 1, 4) \o SubSeq(LANDMARK_INDICES.RIGHT_EYE, 1, 4)
    \o SubSeq(LANDMARK_INDICES.NOSE_TIP, 1, 4) \o SubSeq(LANDMARK_INDICES.CHIN, 1, 4)

\* calculateFaceCompleteness with a visibility of exactly 0.5 counted as
\* visible
calculateFaceCompleteness_AtLeastHalf(landmarks) ==
    LET counted(index) ==
            LET landmark == LandmarkAt(landmarks, index)
                visibility == VisibilityAt(landmarks, index)
            IN  /\ landmark # Undefined
                /\ Ge(landmark.x, Zero) /\ Le(landmark.x, One)
                /\ Ge(landmark.y, Zero) /\ Le(landmark.y, One)
                /\ (visibility = Absent \/ Ge(visibility, Num(1, 2)))
        visibleCount ==
            Cardinality({k \in 1..Len(keyLandmarkIndices) : counted(keyLandmarkIndices[k])})
    IN  Div(Whole(visibleCount), Whole(Len(keyLandmarkIndices)))

\* calculateFaceCompleteness(landmarks)
calculateFaceCompleteness(landmarks) ==
    LET counted(index) ==
            LET landmark == LandmarkAt(landmarks, index)
                visibility == VisibilityAt(landmarks, index)
            IN  /\ landmark # Undefined
                /\ Ge(landmark.x, Zero) /\ Le(landmark.x, One)
                /\ Ge(landmark.y, Zero) /\ Le(landmark.y, One)
                /\ (visibility = Absent \/ Gt(visibility, Num(1, 2)))
        visibleCount ==
            Cardinality({k \in 1..Len(keyLandmarkIndices) : counted(keyLandmarkIndices[k])})
    IN  Div(Whole(visibleCount), Whole(Len(keyLandmarkIndices)))

\* calculateFaceSymmetry(landmarks), when neither eye extraction throws
calculateFaceSymmetry(landmarks) ==
    LET leftEye == extractLandmarksByIndices(landmarks, LANDMARK_INDICES.LEFT_EYE)
        rightEye == extractLandmarksByIndices(landmarks, LANDMARK_INDICES.RIGHT_EYE)
        leftCentroid == calculateCentroid(leftEye)
        rightCentroid == calculateCentroid(rightEye)
        faceCenter == [x |-> Num(1, 2), y |-> Num(1, 2)]
        leftDistance == calculateDistance(leftCentroid, faceCenter)
        rightDistance == calculateDistance(rightCentroid, faceCenter)
    IN  Div(JsMin(leftDistance, rightDistance), JsMax(leftDistance, rightDistance))

\* analyzeFaceQuality(landmarks, imageElement): the FaceQualityMetrics it
\* returns, or the error it throws.
analyzeFaceQuality(landmarks, imageElement) ==
    IF extractLandmarksByIndicesThrows(landmarks, LANDMARK_INDICES.FACE_OUTLINE)
    THEN Failed("Landmark at index not found")
    ELSE IF calculateFaceBoundingBoxThrows(landmarks)
    THEN Failed("TypeError")
    ELSE IF extractLandmarksByIndicesThrows(landmarks, LANDMARK_INDICES.LEFT_EYE)
            \/ extractLandmarksByIndicesThrows(landmarks, LANDMARK_INDICES.RIGHT_EYE)
    THEN Failed("Landmark at index not found")
    ELSE LET imageWidth == Whole(imageElement.width)
             imageHeight == Whole(imageElement.height)
             faceOutline == extractLandmarksByIndices(landmarks, LANDMARK_INDICES.FACE_OUTLINE)
             boundingBox == calculateFaceBoundingBox(landmarks)
             faceWidth == Mul(boundingBox.width, imageWidth)
             faceHeight == Mul(boundingBox.height, imageHeight)
             faceArea == Mul(faceWidth, faceHeight)
             centerX == Mul(Add(boundingBox.left, Div(boundingBox.width, Whole(2))), imageWidth)
             centerY == Mul(Add(boundingBox.top, Div(boundingBox.height, Whole(2))), imageHeight)
             imageCenterX == Div(imageWidth, Whole(2))
             imageCenterY == Div(imageHeight, Whole(2))
             dx == Sub(centerX, imageCenterX)
             dy == Sub(centerY, imageCenterY)
             offsetFromCenter ==
                 Div(JsSqrt(Add(Mul(dx, dx), Mul(dy, dy))),
                     JsSqrt(Add(Mul(imageCenterX, imageCenterX),
                                Mul(imageCenterY, imageCenterY))))
         IN  [thrown       |-> FALSE,
              angle        |-> calculateFaceAngles(faceOutline),
              size         |-> [width  |-> Div(faceWidth, imageWidth),
                                height |-> Div(faceHeight, imageHeight),
                                area   |-> Div(faceArea, Mul(imageWidth, imageHeight))],
              position     |-> [centerX |-> Div(centerX, imageWidth),
                                centerY |-> Div(centerY, imageHeight),
                                offsetFromCenter |-> offsetFromCenter],
              completeness |-> calculateFaceCompleteness(landmarks),
              symmetry     |-> calculateFaceSymmetry(landmarks)]

\* estimateFaceCount(landmarks)
estimateFaceCount(landmarkCount) == IF landmarkCount > 0 THEN 1 ELSE 0

\* validateImageQuality(imageQuality): the issues, in the order pushed
validateImageQuality(imageQuality, t) ==
    (IF Lt(imageQuality.brightness, t.brightness.min)
     THEN <<[type |-> "brightness", severity |-> "medium", message |-> "too dark",
             value |-> imageQuality.brightness, threshold |-> t.brightness.min]>>
     ELSE IF Gt(imageQuality.brightness, t.brightness.max)
     THEN <<[type |-> "brightness", severity |-> "medium", message |-> "too bright",
             value |-> imageQuality.brightness, threshold |-> t.brightness.max]>>
     ELSE <<>>)
    \o (IF Lt(imageQuality.contrast, t.contrast.min)
        THEN <<[type |-> "contrast", severity |-> "low", message |-> "low contrast",
                value |-> imageQuality.contrast, threshold |-> t.contrast.min]>>
        ELSE <<>>)
    \o (IF Gt(imageQuality.blur, t.blur.max)
        THEN <<[type |-> "blur", severity |-> "high", message |-> "blurry",
                value |-> imageQuality.blur, threshold |-> t.blur.max]>>
        ELSE <<>>)

\* validateFaceQuality(faceQuality): the issues, in the order pushed; the
\* height of the face is not compared
validateFaceQuality(faceQuality, t) ==
    (IF Gt(JsAbs(faceQuality.angle.yaw), t.faceAngle.maxYaw)
     THEN <<[type |-> "face_angle", severity |-> "medium", message |-> "yaw",
             value |-> JsAbs(faceQuality.angle.yaw), threshold |-> t.faceAngle.maxYaw]>>
     ELSE <<>>)
    \o (IF Gt(JsAbs(faceQuality.angle.pitch), t.faceAngle.maxPitch)
        THEN <<[type |-> "face_angle", severity |-> "medium", message |-> "pitch",
                value |-> JsAbs(faceQuality.angle.pitch), threshold |-> t.faceAngle.maxPitch]>>
        ELSE <<>>)
    \o (IF Gt(JsAbs(faceQuality.angle.roll), t.faceAngle.maxRoll)
        THEN <<[type |-> "face_angle", severity |-> "low", message |-> "roll",
                value |-> JsAbs(faceQuality.angle.roll), threshold |-> t.faceAngle.maxRoll]>>
        ELSE <<>>)
    \o (IF Lt(faceQuality.size.width, t.faceSize.minWidth)
        THEN <<[type |-> "face_size", severity |-> "medium", message |-> "move closer",
                value |-> faceQuality.size.width, threshold |-> t.faceSize.minWidth]>>
        ELSE IF Gt(faceQuality.size.width, t.faceSize.maxWidth)
        THEN <<[type |-> "face_size", severity |-> "medium", message |-> "move further",
                value |-> faceQuality.size.width, threshold |-> t.faceSize.maxWidth]>>
        ELSE <<>>)
    \o (IF Gt(faceQuality.position.offsetFromCenter, t.facePosition.centerTolerance)
        THEN <<[type |-> "face_position", severity |-> "low", message |-> "center",
                value |-> faceQuality.position.offsetFromCenter,
                threshold |-> t.facePosition.centerTolerance]>>
        ELSE <<>>)
    \o (IF Lt(faceQuality.completeness, Num(8, 10))
        THEN <<[type |-> "partial_face", severity |-> "high", message |-> "cut off",
                value |-> faceQuality.completeness, threshold |-> Num(8, 10)]>>
        ELSE <<>>)

\* The number of issues of one severity.
CountSeverity(issues, severity) ==
    Cardinality({k \in 1..Len(issues) : issues[k].severity = severity})

\* Faulty variant: the result is not clamped to [0, 100].
calculateConfidence_Unclamped(issues, imageQuality, faceQuality, t) ==
    LET base == 100 - 30 * CountSeverity(issues, "high")
                    - 15 * CountSeverity(issues, "medium")
                    - 5 * CountSeverity(issues, "low")
        bonus == (IF Gt(imageQuality.contrast, Mul(t.contrast.min, Num(3, 2))) THEN 5 ELSE 0)
                 + (IF Lt(imageQuality.blur, Mul(t.blur.max, Num(1, 2))) THEN 5 ELSE 0)
                 + (IF Gt(faceQuality.completeness, Num(95, 100)) THEN 10 ELSE 0)
                 + (IF Gt(faceQuality.symmetry, Num(9, 10)) THEN 5 ELSE 0)
    IN  Whole(base + bonus)

\* Faulty variant: a high-severity issue costs 15, as a medium one does.
calculateConfidence_HighAsMedium(issues, imageQuality, faceQuality, t) ==
    LET base == 100 - 15 * CountSeverity(issues, "high")
                    - 15 * CountSeverity(issues, "medium")
                    - 5 * CountSeverity(issues, "low")
        bonus == (IF Gt(imageQuality.contrast, Mul(t.contrast.min, Num(3, 2))) THEN 5 ELSE 0)
                 + (IF Lt(imageQuality.blur, Mul(t.blur.max, Num(1, 2))) THEN 5 ELSE 0)
                 + (IF Gt(faceQuality.completeness, Num(95, 100)) THEN 10 ELSE 0)
                 + (IF Gt(faceQuality.symmetry, Num(9, 10)) THEN 5 ELSE 0)
    IN  JsMax(Zero, JsMin(Whole(100), Whole(base + bonus)))

\* calculateConfidence(issues, imageQuality, faceQuality)
calculateConfidence(issues, imageQuality, faceQuality, t) ==
    LET RECURSIVE Penalised(_)
        Penalised(k) ==
            IF k = 0 THEN Whole(100)
            ELSE Sub(Penalised(k - 1),
                     CASE issues[k].severity = "high" -> Whole(30)
                       [] issues[k].severity = "medium" -> Whole(15)
                       [] issues[k].severity = "low" -> Whole(5))
        c0 == Penalised(Len(issues))
        c1 == IF Gt(imageQuality.contrast, Mul(t.contrast.min, Num(15, 10)))
              THEN Add(c0, Whole(5)) ELSE c0
        c2 == IF Lt(imageQuality.blur, Mul(t.blur.max, Num(5, 10)))
              THEN Add(c1, Whole(5)) ELSE c1
        c3 == IF Gt(faceQuality.completeness, Num(95, 100))
              THEN Add(c2, Whole(10)) ELSE c2
        c4 == IF Gt(faceQuality.symmetry, Num(9, 10))
              THEN Add(c3, Whole(5)) ELSE c3
    IN  JsMax(Zero, JsMin(Whole(100), c4))

\* The types of the issues: new Set(issues.map(issue => issue.type))
IssueTypes(issues) == {issues[k].type : k \in 1..Len(issues)}

\* Faulty variant: one guidance string per issue, in the order of the issues.
createResult_PerOccurrence(isValid, issues, confidence) ==
    LET RECURSIVE Guidance(_)
        Guidance(k) ==
            IF k = 0 THEN <<>>
            ELSE Guidance(k - 1) \o
                 (CASE issues[k].type \in {"brightness", "poor_lighting"} -> <<"lighting">>
                    [] issues[k].type = "face_angle" -> <<"angle">>
                    [] issues[k].type = "face_size" -> <<"size">>
                    [] issues[k].type = "blur" -> <<"focus">>
                    [] OTHER -> <<>>)
        guidance == Guidance(Len(issues))
    IN  [thrown          |-> FALSE,
         isValid         |-> isValid,
         issues          |-> issues,
         confidence      |-> confidence,
         recommendations |-> IF Len(guidance) = 0 /\ isValid THEN <<"suitable">> ELSE guidance]

\* Faulty variant: the positive message is never added.
createResult_NoPositiveMessage(isValid, issues, confidence) ==
    LET issueTypes == IssueTypes(issues)
    IN  [thrown          |-> FALSE,
         isValid         |-> isValid,
         issues          |-> issues,
         confidence      |-> confidence,
         recommendations |->
             (IF "brightness" \in issueTypes \/ "poor_lighting" \in issueTypes
              THEN <<"lighting">> ELSE <<>>)
             \o (IF "face_angle" \in issueTypes THEN <<"angle">> ELSE <<>>)
             \o (IF "face_size" \in issueTypes THEN <<"size">> ELSE <<>>)
             \o (IF "blur" \in issueTypes THEN <<"focus">> ELSE <<>>)]

\* createResult(isValid, issues, confidence)
createResult(isValid, issues, confidence) ==
    LET issueTypes == IssueTypes(issues)
        guidance ==
            (IF "brightness" \in issueTypes \/ "poor_lighting" \in issueTypes
             THEN <<"lighting">> ELSE <<>>)
            \o (IF "face_angle" \in issueTypes THEN <<"angle">> ELSE <<>>)
            \o (IF "face_size" \in issueTypes THEN <<"size">> ELSE <<>>)
            \o (IF "blur" \in issueTypes THEN <<"focus">> ELSE <<>>)
        recommendations ==
            IF Len(guidance) = 0 /\ isValid THEN <<"suitable">> ELSE guidance
    IN  [thrown          |-> FALSE,
         isValid         |-> isValid,
         issues          |-> issues,
         confidence      |-> confidence,
         recommendations |-> recommendations]

\* The QualityValidationError the catch of validateImage throws for the
\* error it caught: the image is analysed first, so its error is the one
\* caught when both analyses would throw.
QualityValidationError(image, face) ==
    [thrown  |-> TRUE,
     name    |-> "QualityValidationError",
     code    |-> "ANALYSIS_FAILED",
     details |-> IF image.thrown THEN image.error ELSE face.error]

\* Faulty variant: an empty landmark list is analysed like any other.
validateImage_NoEmptyCheck(landmarkCount, image, face, t) ==
    IF image.thrown \/ face.thrown
    THEN QualityValidationError(image, face)
    ELSE LET issues == validateImageQuality(image, t) \o validateFaceQuality(face, t)
         IN  createResult(CountSeverity(issues, "high") = 0, issues,
                          calculateConfidence(issues, image, face, t))

\* Faulty variant: a frame is valid only when it has no issue at all.
validateImage_ValidOnlyWithoutIssues(landmarkCount, image, face, t) ==
    IF landmarkCount = 0
    THEN createResult(FALSE,
                      <<[type |-> "no_face_detected", severity |-> "high", message |-> "no face"]>>,
                      Zero)
    ELSE IF image.thrown \/ face.thrown
    THEN QualityValidationError(image, face)
    ELSE LET issues == validateImageQuality(image, t) \o validateFaceQuality(face, t)
         IN  createResult(Len(issues) = 0, issues,
                          calculateConfidence(issues, image, face, t))

\* Faulty variant: a failure of the face analysis is taken for a frame
\* without a face instead of being thrown.
validateImage_FaceFailureSwallowed(landmarkCount, image, face, t) ==
    IF landmarkCount = 0 \/ (~image.thrown /\ face.thrown)
    THEN createResult(FALSE,
                      <<[type |-> "no_face_detected", severity |-> "high", message |-> "no face"]>>,
                      Zero)
    ELSE IF image.thrown
    THEN QualityValidationError(image, face)
    ELSE LET issues == validateImageQuality(image, t) \o validateFaceQuality(face, t)
         IN  createResult(CountSeverity(issues, "high") = 0, issues,
                          calculateConfidence(issues, image, face, t))

\* validateImage(imageElement, landmarks) of a validator constructed with
\* thresholds t: the QualityCheckResult it resolves to, or the
\* QualityValidationError it rejects with.  `image' is what
\* analyzeImageQuality(imageElement) yields and `face' what
\* analyzeFaceQuality(landmarks, imageElement) yields: the metrics, or
\* [thrown |-> TRUE] when the analysis throws.
validateImage(landmarkCount, image, face, t) ==
    IF landmarkCount = 0
    THEN createResult(FALSE,
                      <<[type |-> "no_face_detected", severity |-> "high", message |-> "no face"]>>,
                      Zero)
    ELSE LET faceCount == estimateFaceCount(landmarkCount)
             multiple  == IF faceCount > 1
                          THEN <<[type |-> "multiple_faces", severity |-> "medium",
                                  message |-> "multiple faces", value |-> Whole(faceCount)]>>
                          ELSE <<>>
         IN  IF image.thrown \/ face.thrown
             THEN QualityValidationError(image, face)
             ELSE LET issues == multiple \o validateImageQuality(image, t)
                                         \o validateFaceQuality(face, t)
                      confidence == calculateConfidence(issues, image, face, t)
                      isValid == Cardinality({k \in 1..Len(issues) :
                                                  issues[k].severity = "high"}) = 0
                  IN  createResult(isValid, issues, confidence)

(***************************************************************************)
(* MediaPipeFaceLandmarker (lib/mediapipe.ts)                              *)
(***************************************************************************)
\* null: no landmarker, no promise.
Null == 0

\* The fields of a MediaPipeFaceLandmarker after construction.  A landmarker
\* handle and an initialization promise are named by the number of the
\* doInitialize run that made them.
NewLandmarker ==
    [faceLandmarker |-> Null, isInitialized |-> FALSE, initializationPromise |-> Null]

\* A slot in which no MediaPipeFaceLandmarker has been constructed.
Unbuilt == [unbuilt |-> TRUE]

\* Faulty variant: an initialization that is pending or has failed is not
\* reused, a new one is started.
initialize_NoPendingCheck(this, run) ==
    IF this.isInitialized THEN [this |-> this, started |-> FALSE, awaits |-> Null]
    ELSE [this    |-> [this EXCEPT !.initializationPromise = run],
          started |-> TRUE,
          awaits  |-> run]

\* initialize(): the fields afterwards, whether doInitialize was called (its
\* run is then `run`), and the promise the caller waits for (Null when the
\* call returns at once).
initialize(this, run) ==
    IF this.isInitialized THEN [this |-> this, started |-> FALSE, awaits |-> Null]
    ELSE IF this.initializationPromise # Null
    THEN [this |-> this, started |-> FALSE, awaits |-> this.initializationPromise]
    ELSE [this    |-> [this EXCEPT !.initializationPromise = run],
          started |-> TRUE,
          awaits  |-> run]

\* doInitialize waits three times: for the module, for the fileset, for the
\* landmarker.  Each wait may end in an error, which rejects the run with
\* the code INIT_FAILED.
LoadAfter(pc) ==
    CASE pc = "import" -> "fileset"
      [] pc = "fileset" -> "create"
      [] pc = "create" -> "fulfilled"

\* doInitialize after its last wait: the landmarker is stored and the
\* instance marked initialized.
doInitializeCompletes(this, handle) ==
    [this EXCEPT !.faceLandmarker = handle, !.isInitialized = TRUE]

\* What FaceLandmarker.detect does with an image: it throws, it finds no
\* face, or it finds one.
Detections == {"fails", "none", "face"}

\* detectLandmarks(imageElement)
detectLandmarks(this, detection) ==
    IF ~this.isInitialized \/ this.faceLandmarker = Null
    THEN [thrown |-> TRUE, error |-> "MediaPipe not initialized"]
    ELSE CASE detection = "fails" -> [thrown |-> TRUE, error |-> "DETECTION_FAILED"]
           [] detection = "none" -> [thrown |-> FALSE, landmarkCount |-> 0]
           [] detection = "face" -> [thrown |-> FALSE, landmarkCount |-> RequiredLandmarks]

\* dispose(): the fields afterwards (the landmarker held is closed)
dispose(this) ==
    [this EXCEPT !.faceLandmarker = Null, !.isInitialized = FALSE,
                 !.initializationPromise = Null]

\* The largest number of instances constructed and of doInitialize runs, and
\* the largest number of initialize() calls counted per instance.
MaxLandmarkers == 2
MaxLoads == 2
MaxCalls == 3

Instances == 1..MaxLandmarkers
Runs == 1..MaxLoads

UnusedRun == [owner |-> Null, pc |-> "unused"]

\* The number of the next doInitialize run in a table of runs, Null when
\* MaxLoads have started.
NextRunOf(table) ==
    IF \E run \in Runs : table[run] = UnusedRun
    THEN CHOOSE run \in Runs :
             /\ table[run] = UnusedRun
             /\ \A earlier \in 1..(run - 1) : table[earlier] # UnusedRun
    ELSE Null

NextRun == NextRunOf(loads)

\* What is remembered of an instance since it was constructed or disposed:
\* the doInitialize runs started, the initialize() calls made, how many of
\* them were handed a promise that existed already, the promises the calls
\* waited for, and whether it is disposed and initialize() has not been
\* called since.
FreshHistory == [loads |-> 0, calls |-> 0, joined |-> 0, awaited |-> {}, disposed |-> FALSE]

\* landmarker.initialize() on instance i
LmInitialize(i) ==
    /\ landmarkers[i] # Unbuilt
    /\ lmHistory[i].calls < MaxCalls
    /\ LET out == initialize(landmarkers[i], NextRun)
       IN  /\ out.started => NextRun # Null
           /\ landmarkers' = [landmarkers EXCEPT ![i] = out.this]
           /\ loads' = IF out.started
                       THEN [loads EXCEPT ![NextRun] = [owner |-> i, pc |-> "import"]]
                       ELSE loads
           /\ lmReturned' = [op |-> "initialize", instance |-> i, awaits |-> out.awaits]
           /\ lmHistory' = [lmHistory EXCEPT ![i] =
                  [loads    |-> @.loads + (IF out.started THEN 1 ELSE 0),
                   calls    |-> @.calls + 1,
                   joined   |-> @.joined + (IF ~out.started /\ out.awaits # Null THEN 1 ELSE 0),
                   awaited  |-> @.awaited \cup ({out.awaits} \ {Null}),
                   disposed |-> FALSE]]
    /\ UNCHANGED openHandles

\* A wait of doInitialize ends well and the run goes on to its next wait.
LoadAdvance(run) ==
    /\ loads[run].pc \in {"import", "fileset"}
    /\ loads' = [loads EXCEPT ![run].pc = LoadAfter(@)]
    /\ UNCHANGED <<landmarkers, openHandles, lmReturned, lmHistory>>

\* createFromOptions resolves: lines 77-78 run on the instance that started
\* the run, whatever has happened to it since.
LoadComplete(run) ==
    /\ loads[run].pc = "create"
    /\ loads' = [loads EXCEPT ![run].pc = LoadAfter(@)]
    /\ landmarkers' = [landmarkers EXCEPT ![loads[run].owner] = doInitializeCompletes(@, run)]
    /\ openHandles' = openHandles \cup {run}
    /\ UNCHANGED <<lmReturned, lmHistory>>

\* A wait of doInitialize ends in an error: the run is rejected.
LoadFail(run) ==
    /\ loads[run].pc \in {"import", "fileset", "create"}
    /\ loads' = [loads EXCEPT ![run].pc = "rejected"]
    /\ UNCHANGED <<landmarkers, openHandles, lmReturned, lmHistory>>

\* landmarker.detectLandmarks(image) on instance i
LmDetect(i, detection) ==
    /\ landmarkers[i] # Unbuilt
    /\ lmReturned' = [op |-> "detectLandmarks", instance |-> i,
                      outcome |-> detectLandmarks(landmarkers[i], detection)]
    /\ UNCHANGED <<landmarkers, loads, openHandles, lmHistory>>

\* landmarker.dispose() on instance i
LmDispose(i) ==
    /\ landmarkers[i] # Unbuilt
    /\ openHandles' = openHandles \ {landmarkers[i].faceLandmarker}
    /\ landmarkers' = [landmarkers EXCEPT ![i] = dispose(@)]
    /\ lmReturned' = [op |-> "dispose", instance |-> i]
    /\ lmHistory' = [lmHistory EXCEPT ![i] = [FreshHistory EXCEPT !.disposed = TRUE]]
    /\ UNCHANGED loads

(***************************************************************************)
(* Capture component (ui/Capture.tsx, and its later version with a file    *)
(* mode, part_011) under App (App.tsx)                                     *)
(***************************************************************************)
\* The two versions of the component.  In Capture.tsx the initialization
\* effect has no dependencies; in part_011 it depends on
\* captureState.stream and onError.
Components == {"Capture.tsx", "part_011"}

\* The largest number of getUserMedia calls.
MaxStreams == 2

Streams == 1..MaxStreams

\* A stream getUserMedia has not been asked for yet.
UnusedStream == [tracks |-> "none", request |-> "unused"]

\* The number of the next stream in a table of streams, Null when
\* MaxStreams have been asked for.
NextStreamOf(table) ==
    IF \E s \in Streams : table[s] = UnusedStream
    THEN CHOOSE s \in Streams :
             /\ table[s] = UnusedStream
             /\ \A earlier \in 1..(s - 1) : table[earlier] # UnusedStream
    ELSE Null

\* The slot of the next MediaPipeFaceLandmarker constructed.
NextInstanceOf(table) ==
    IF \E i \in Instances : table[i] = Unbuilt
    THEN CHOOSE i \in Instances :
             /\ table[i] = Unbuilt
             /\ \A earlier \in 1..(i - 1) : table[earlier] # Unbuilt
    ELSE Null

\* No capture or file has been processed.
NoCapture ==
    [kind |-> "none", settled |-> FALSE, flagged |-> FALSE, detected |-> "not called",
     featuresCalled |-> FALSE, scoresCalled |-> FALSE, onCapture |-> 0, onError |-> 0,
     statuses |-> <<>>]

\* App.handleError and App.handleCapture: the state of App afterwards.
handleError(state, errorMessage) == [error |-> errorMessage, hasResult |-> FALSE]

handleCapture(state) == [error |-> "", hasResult |-> TRUE]

\* The state of the program a handler works on: the component, the
\* landmarkers, the streams, App, and the capture being processed.  blocked
\* says that the handler needs more landmarkers, runs or streams than the
\* model has.
World ==
    [ui |-> ui, lm |-> landmarkers, loads |-> loads, open |-> openHandles,
     hist |-> lmHistory, streams |-> streams, app |-> app, capture |-> capture,
     blocked |-> FALSE]

\* videoRef.current and canvasRef.current are set while the component is
\* mounted; part_011 renders the video element in camera mode only.
videoRef(w) == w.ui.mounted /\ w.ui.captureState.mode = "camera"

\* setCaptureState: a state update of an unmounted component is dropped.
setCaptureState(w, next) ==
    IF w.ui.mounted THEN [w EXCEPT !.ui.captureState = next] ELSE w

\* The two ways the components write a new status: Capture.tsx replaces the
\* whole state outside captureImage ({ status }), part_011 spreads the
\* previous state ({ ...prev, status }).
replaced(w, status) ==
    IF component = "Capture.tsx"
    THEN setCaptureState(w, [mode |-> "camera", status |-> status, stream |-> Null])
    ELSE setCaptureState(w, [w.ui.captureState EXCEPT !.status = status])

spread(w, status) == setCaptureState(w, [w.ui.captureState EXCEPT !.status = status])

\* onError?.(errorMessage) and onCapture?.(result) under App: when the
\* state of App changes, App renders and hands the component a new onError.
onError(w, errorMessage) ==
    [w EXCEPT !.app = handleError(@, errorMessage),
              !.ui.newOnError = @ \/ handleError(w.app, errorMessage) # w.app]

onCapture(w) == [w EXCEPT !.app = handleCapture(@), !.ui.newOnError = TRUE]

\* The cleanup of the initialization effect: it disposes the landmarker the
\* ref holds now and stops the stream of the render the effect belongs to.
cleanup(w) ==
    LET ref == w.ui.landmarkerRef
        closed == IF ref = Null THEN w
                  ELSE [w EXCEPT !.open = @ \ {w.lm[ref].faceLandmarker},
                                 !.lm[ref] = dispose(@),
                                 !.hist[ref] = [FreshHistory EXCEPT !.disposed = TRUE]]
        held == w.ui.effectStream
    IN  IF held = Null THEN closed
        ELSE [closed EXCEPT !.streams[held].tracks = "stopped"]

\* The initialization effect up to the await of initializeComponents: a new
\* landmarker is constructed and its initialize() called.
initializeComponents(w) ==
    LET i == NextInstanceOf(w.lm)
        run == NextRunOf(w.loads)
        out == initialize(NewLandmarker, run)
    IN  IF i = Null \/ run = Null THEN [w EXCEPT !.blocked = TRUE]
        ELSE [w EXCEPT !.lm[i] = out.this,
                       !.loads[run] = [owner |-> i, pc |-> "import"],
                       !.hist[i] = [FreshHistory EXCEPT !.loads = 1, !.calls = 1,
                                                        !.awaited = {run}],
                       !.ui.landmarkerRef = i,
                       !.ui.waiting = @ \cup {run},
                       !.ui.effectStream = w.ui.captureState.stream,
                       !.ui.newOnError = FALSE]

\* Faulty variant: the state is marked initialized although the
\* initialization was rejected.
initializationSettled_FailureIgnored(w, run, fulfilled) ==
    LET done == [w EXCEPT !.ui.waiting = @ \ {run}]
    IN  IF run \notin w.ui.waiting THEN w
        ELSE [done EXCEPT !.ui.refsReady = TRUE,
                          !.ui.isInitialized = @ \/ w.ui.mounted]

\* initializeComponents after its await: the refs are filled and
\* isInitialized set, or the error is shown and reported.
initializationSettled(w, run, fulfilled) ==
    LET done == [w EXCEPT !.ui.waiting = @ \ {run}]
    IN  IF run \notin w.ui.waiting THEN w
        ELSE IF fulfilled
        THEN [done EXCEPT !.ui.refsReady = TRUE,
                          !.ui.isInitialized = @ \/ w.ui.mounted]
        ELSE onError(replaced(done, "error"), "Failed to initialize components")

\* The component has rendered with a dependency of the initialization
\* effect changed: the cleanup and the effect are due, and run before
\* anything else does.
effectDue ==
    /\ component = "part_011"
    /\ ui.mounted
    /\ (ui.newOnError \/ ui.captureState.stream # ui.effectStream)

\* startCamera up to the await of getUserMedia
startCamera(w) ==
    LET s == NextStreamOf(w.streams)
    IN  IF ~w.ui.isInitialized
        THEN onError(replaced(w, "error"), "Components not initialized")
        ELSE IF s = Null THEN [w EXCEPT !.blocked = TRUE]
        ELSE [replaced(w, "requesting_camera") EXCEPT
                  !.streams[s] = [tracks |-> "none", request |-> "getUserMedia"]]

\* startCamera after getUserMedia has resolved with stream s: with a video
\* element it waits for the metadata, without one it returns.
cameraGranted(w, s) ==
    [w EXCEPT !.streams[s] = [tracks |-> "live",
                              request |-> IF videoRef(w) THEN "metadata" ELSE "settled"]]

\* startCamera when getUserMedia or the video element has failed
cameraFailed(w, s) ==
    onError(replaced([w EXCEPT !.streams[s].request = "settled"], "error"),
            "Camera access denied or not available")

\* startCamera after the metadata has loaded
cameraReady(w, s) ==
    LET settled == [w EXCEPT !.streams[s].request = "settled"]
    IN  IF component = "Capture.tsx"
        THEN setCaptureState(settled,
                 [mode |-> "camera", status |-> "camera_active", stream |-> s])
        ELSE setCaptureState(settled,
                 [w.ui.captureState EXCEPT !.status = "camera_active", !.stream = s])

\* stopCamera()
stopCamera(w) ==
    LET held == w.ui.captureState.stream
        stopped == IF held = Null THEN w ELSE [w EXCEPT !.streams[held].tracks = "stopped"]
    IN  replaced(stopped, "idle")

\* handleModeSwitch(newMode)
handleModeSwitch(w, newMode) ==
    LET held == w.ui.captureState.stream
        stopped == IF w.ui.captureState.mode = "camera" /\ held # Null
                   THEN [w EXCEPT !.streams[held].tracks = "stopped"]
                   ELSE w
    IN  setCaptureState(stopped, [mode |-> newMode, status |-> "idle", stream |-> Null])

\* A status written while a capture or file is processed.
processing(w, status) ==
    [spread(w, status) EXCEPT !.capture.statuses = Append(@, status)]

\* The catch block of captureImage, processImage and handleFileSelected
processingFailed(w, errorMessage) ==
    LET shown == processing(w, "error")
    IN  onError([shown EXCEPT !.capture.settled = TRUE, !.capture.onError = @ + 1],
                errorMessage)

\* The end of the try block: the result is reported
processingComplete(w) ==
    LET shown == processing(w, "complete")
    IN  onCapture([shown EXCEPT !.capture.settled = TRUE, !.capture.onCapture = @ + 1])

\* Faulty variant: an empty landmark list is passed on.
analyse_EmptyPassedOn(w, detection, validation, extraction) ==
    LET outcome == detectLandmarks(w.lm[w.ui.landmarkerRef], detection)
        seen == [w EXCEPT !.capture.flagged = w.ui.mounted /\ w.ui.isInitialized,
                          !.capture.detected =
                              IF outcome.thrown THEN outcome.error
                              ELSE IF outcome.landmarkCount = 0 THEN "none" ELSE "face"]
        measured == [seen EXCEPT !.capture.featuresCalled = TRUE]
        scored == [measured EXCEPT !.capture.scoresCalled = TRUE]
    IN  IF outcome.thrown THEN [w |-> seen, error |-> outcome.error]
        ELSE IF validation = "throws" THEN [w |-> seen, error |-> "ANALYSIS_FAILED"]
        ELSE IF extraction = "throws" \/ outcome.landmarkCount < RequiredLandmarks
        THEN [w |-> measured, error |-> "CALCULATION_ERROR"]
        ELSE [w |-> scored, error |-> ""]

\* The analysis both components run on an image: detectLandmarks, the check
\* for an empty list, validateImage, calculateFacialFeatures and
\* calculateQualityScores.  The world afterwards, and the message of the
\* error thrown ("" for none).  The capture is flagged when the component
\* is mounted with isInitialized true as detectLandmarks is called.
analyse(w, detection, validation, extraction) ==
    LET outcome == detectLandmarks(w.lm[w.ui.landmarkerRef], detection)
        seen == [w EXCEPT !.capture.flagged = w.ui.mounted /\ w.ui.isInitialized,
                          !.capture.detected =
                              IF outcome.thrown THEN outcome.error
                              ELSE IF outcome.landmarkCount = 0 THEN "none" ELSE "face"]
        measured == [seen EXCEPT !.capture.featuresCalled = TRUE]
        scored == [measured EXCEPT !.capture.scoresCalled = TRUE]
    IN  IF outcome.thrown THEN [w |-> seen, error |-> outcome.error]
        ELSE IF outcome.landmarkCount = 0 THEN [w |-> seen, error |-> "no face"]
        ELSE IF validation = "throws" THEN [w |-> seen, error |-> "ANALYSIS_FAILED"]
        ELSE IF extraction = "throws" THEN [w |-> measured, error |-> "CALCULATION_ERROR"]
        ELSE [w |-> scored, error |-> ""]

\* processImage(imageElement) of part_011; context says whether the canvas
\* made for the image data has a 2d context.
processImage(w, detection, validation, extraction, context) ==
    IF w.ui.landmarkerRef = Null \/ ~w.ui.refsReady
    THEN processingFailed(w, "Components not initialized")
    ELSE LET analysed == analyse(processing(w, "processing"), detection, validation,
                                 extraction)
         IN  IF analysed.error # "" THEN processingFailed(analysed.w, analysed.error)
             ELSE IF ~context
             THEN processingFailed(analysed.w, "Could not get canvas context")
             ELSE processingComplete(analysed.w)

\* Faulty variant: the status is not looked at.
captureImage_AnyStatus(w, detection, validation, extraction, context) ==
    LET begun == processing([w EXCEPT !.capture = [NoCapture EXCEPT !.kind = "frame"]],
                            "capturing")
    IN  IF ~videoRef(w) THEN w
        ELSE IF component = "part_011"
        THEN (IF ~context THEN processingFailed(begun, "Could not get canvas context")
              ELSE begun)
        ELSE IF w.ui.landmarkerRef = Null \/ ~w.ui.refsReady THEN w
        ELSE IF ~context THEN processingFailed(begun, "Could not get canvas context")
        ELSE LET analysed == analyse(processing(begun, "processing"), detection,
                                     validation, extraction)
             IN  IF analysed.error # "" THEN processingFailed(analysed.w, analysed.error)
                 ELSE processingComplete(analysed.w)

\* captureImage(): in Capture.tsx the whole capture, which waits for nothing
\* but promises that are settled already; in part_011 up to the loading of
\* the image made from the canvas, whose onload calls processImage.
captureImage(w, detection, validation, extraction, context) ==
    LET begun == processing([w EXCEPT !.capture = [NoCapture EXCEPT !.kind = "frame"]],
                            "capturing")
    IN  IF ~videoRef(w) \/ w.ui.captureState.status # "camera_active" THEN w
        ELSE IF component = "part_011"
        THEN (IF ~context THEN processingFailed(begun, "Could not get canvas context")
              ELSE begun)
        ELSE IF w.ui.landmarkerRef = Null \/ ~w.ui.refsReady THEN w
        ELSE IF ~context THEN processingFailed(begun, "Could not get canvas context")
        ELSE LET analysed == analyse(processing(begun, "processing"), detection,
                                     validation, extraction)
             IN  IF analysed.error # "" THEN processingFailed(analysed.w, analysed.error)
                 ELSE processingComplete(analysed.w)

\* handleFileSelected(file) up to the await of processImageFile
handleFileSelected(w) ==
    processing([w EXCEPT !.capture = [NoCapture EXCEPT !.kind = "file"]], "processing")

\* handleFileError(error): FileUpload has refused the file
handleFileError(w) == onError(spread(w, "error"), "invalid file")

(***************************************************************************)
(* EXIF orientation of an uploaded file (part_006)                         *)
(***************************************************************************)
\* A DataView over a sequence of bytes: a read outside the buffer throws a
\* RangeError.
CanRead(bytes, offset, size) == offset >= 0 /\ offset + size <= Len(bytes)

getUint16(bytes, offset, littleEndian) ==
    IF littleEndian
    THEN bytes[offset + 1] + 256 * bytes[offset + 2]
    ELSE 256 * bytes[offset + 1] + bytes[offset + 2]

\* An offset of 2^31 or more lies beyond every buffer; it is read as this
\* one, which does too and to which an offset into a buffer can be added.
BeyondEveryBuffer == 2^30 + (2^30 - 2^16)

getUint32(bytes, offset, littleEndian) ==
    LET b == [k \in 1..4 |-> IF littleEndian THEN bytes[offset + 5 - k]
                             ELSE bytes[offset + k]]
    IN  IF b[1] >= 128 THEN BeyondEveryBuffer
        ELSE ((b[1] * 256 + b[2]) * 256 + b[3]) * 256 + b[4]

\* The loop of parseEXIFOrientation from entry i on.  With checked FALSE the
\* value of the orientation tag is returned as it is.
RECURSIVE orientationEntry(_, _, _, _, _, _)
orientationEntry(bytes, ifdOffset, entryCount, littleEndian, i, checked) ==
    LET entryOffset == ifdOffset + 2 + (i * 12)
    IN  IF i >= entryCount THEN 1
        ELSE IF ~CanRead(bytes, entryOffset, 2) THEN 1
        ELSE IF getUint16(bytes, entryOffset, littleEndian) = 274
        THEN (IF ~CanRead(bytes, entryOffset + 8, 2) THEN 1
              ELSE LET value == getUint16(bytes, entryOffset + 8, littleEndian)
                   IN  IF checked THEN (IF value >= 1 /\ value <= 8 THEN value ELSE 1)
                       ELSE value)
        ELSE orientationEntry(bytes, ifdOffset, entryCount, littleEndian, i + 1, checked)

\* The TIFF header at offset: the offset of the first IFD and the number of
\* its entries, or thrown when a read leaves the buffer.
tiffHeader(bytes, offset) ==
    IF ~CanRead(bytes, offset, 2) \/ ~CanRead(bytes, offset + 4, 4)
    THEN [thrown |-> TRUE]
    ELSE LET littleEndian == getUint16(bytes, offset, FALSE) = 18761
             ifdOffset == offset + getUint32(bytes, offset + 4, littleEndian)
         IN  IF ~CanRead(bytes, ifdOffset, 2) THEN [thrown |-> TRUE]
             ELSE [thrown |-> FALSE, littleEndian |-> littleEndian,
                   ifdOffset |-> ifdOffset,
                   entryCount |-> getUint16(bytes, ifdOffset, littleEndian)]

\* Faulty variant: the value of the orientation tag is not checked.
parseEXIFOrientation_NoRangeCheck(bytes, offset) ==
    LET header == tiffHeader(bytes, offset)
    IN  IF header.thrown THEN 1
        ELSE orientationEntry(bytes, header.ifdOffset, header.entryCount,
                              header.littleEndian, 0, FALSE)

\* parseEXIFOrientation(dataView, offset)
parseEXIFOrientation(bytes, offset) ==
    LET header == tiffHeader(bytes, offset)
    IN  IF header.thrown THEN 1
        ELSE orientationEntry(bytes, header.ifdOffset, header.entryCount,
                              header.littleEndian, 0, TRUE)

\* "Exif" followed by two zero bytes at exifOffset; the second read is made
\* only when the first has matched.  Thrown when a read leaves the buffer.
exifHeader(bytes, exifOffset) ==
    IF ~CanRead(bytes, exifOffset, 4) THEN [thrown |-> TRUE]
    ELSE IF <<bytes[exifOffset + 1], bytes[exifOffset + 2], bytes[exifOffset + 3],
              bytes[exifOffset + 4]>> # <<69, 120, 105, 102>>
    THEN [thrown |-> FALSE, found |-> FALSE]
    ELSE IF ~CanRead(bytes, exifOffset + 4, 2) THEN [thrown |-> TRUE]
    ELSE [thrown |-> FALSE, found |-> getUint16(bytes, exifOffset + 4, FALSE) = 0]

\* extractEXIFOrientation up to its loop: the buffer is read and the JPEG
\* signature 0xFFD8 looked for.  Every error is caught and gives 1.
extractionBegins(file) ==
    IF ~file.readable THEN [done |-> TRUE, result |-> 1]
    ELSE IF ~CanRead(file.bytes, 0, 2) THEN [done |-> TRUE, result |-> 1]
    ELSE IF getUint16(file.bytes, 0, FALSE) # 65496 THEN [done |-> TRUE, result |-> 1]
    ELSE [done |-> FALSE, offset |-> 2]

\* One test of the loop condition of extractEXIFOrientation and, when it
\* holds, one pass through the body.
markerScan(bytes, offset) ==
    IF ~(offset < Len(bytes)) THEN [done |-> TRUE, result |-> 1]
    ELSE IF ~CanRead(bytes, offset, 2) THEN [done |-> TRUE, result |-> 1]
    ELSE LET marker == getUint16(bytes, offset, FALSE)
             header == exifHeader(bytes, offset + 4)
         IN  IF marker = 65505 /\ header.thrown THEN [done |-> TRUE, result |-> 1]
             ELSE IF marker = 65505 /\ header.found
             THEN [done |-> TRUE, result |-> parseEXIFOrientation(bytes, offset + 10)]
             ELSE IF marker = 65498 THEN [done |-> TRUE, result |-> 1]
             ELSE IF ~CanRead(bytes, offset + 2, 2) THEN [done |-> TRUE, result |-> 1]
             ELSE [done |-> FALSE,
                   offset |-> offset + 2 + getUint16(bytes, offset + 2, FALSE)]

(***************************************************************************)
(* Inputs of the scoring engine                                            *)
(***************************************************************************)
\* The band [min, max] is cut into DevSteps equal steps; the values tried
\* reach DevReach steps below min and above max.
DevSteps == 4
DevReach == 6

\* Baseline intervals with min <= max: the nine defaults, a wide one and a
\* degenerate one (min = max).
DevRanges ==
    {DEFAULT_BASELINE_RANGES.eyes[k] : k \in {"aspectRatio", "symmetry", "tilt"}}
    \cup {DEFAULT_BASELINE_RANGES.nose[k] : k \in {"widthRatio", "projection", "symmetry"}}
    \cup {DEFAULT_BASELINE_RANGES.jaw[k] : k \in {"angle", "chinRatio", "asymmetry"}}
    \cup {<<Zero, Whole(10)>>, <<One, One>>}

\* Values on the grid of a band, values a hundredth of the span (or of 1)
\* outside each edge, and the special values.
DevValues(range) ==
    LET span == Sub(range[2], range[1])
        step == Div(span, Whole(DevSteps))
        eps  == IF span = Zero THEN Num(1, 100) ELSE Div(span, Whole(100))
    IN  {Add(range[1], Mul(Whole(k), step)) : k \in (0 - DevReach)..(DevSteps + DevReach)}
        \cup {Sub(range[1], eps), Add(range[2], eps), PosInf, NegInf, NaN}

\* Component deviations of a region: calculateDeviation returns 0 inside the
\* band and a value above 1/2, capped at 1, outside it.
RegDeviationValues == {Zero, Num(3, 5), Num(3, 4), One}

\* Non-negative weights of one region: the defaults of the three regions and
\* two sets that do not sum to 1.
RegWeightSets ==
    {<<DEFAULT_WEIGHTING_FACTORS.eyes.aspectRatio, DEFAULT_WEIGHTING_FACTORS.eyes.symmetry,
       DEFAULT_WEIGHTING_FACTORS.eyes.tilt>>,
     <<DEFAULT_WEIGHTING_FACTORS.jaw.angle, DEFAULT_WEIGHTING_FACTORS.jaw.projection,
       DEFAULT_WEIGHTING_FACTORS.jaw.asymmetry>>,
     <<Num(4, 5), Num(7, 10), Num(1, 2)>>,
     <<Zero, One, Num(1, 4)>>}

\* Weights that sum to 2 in every region: a configuration the constructor
\* accepts (the sum is not enforced), under which 100 * (1 - sum) is negative.
HEAVY_WEIGHTING_FACTORS ==
    [eyes |-> [aspectRatio |-> Num(4, 5), symmetry   |-> Num(7, 10), tilt      |-> Num(1, 2)],
     nose |-> [width       |-> Num(4, 5), projection |-> Num(7, 10), symmetry  |-> Num(1, 2)],
     jaw  |-> [angle       |-> Num(4, 5), projection |-> Num(7, 10), asymmetry |-> Num(1, 2)]]

\* The fields of EyeMetrics, NoseMetrics and JawMetrics that
\* calculateQualityScores reads.
EyeInputs ==
    [leftEye      : [aspectRatio : {Whole(3), Num(33, 10), PosInf}, tilt : {Zero, Whole(-6)}],
     rightEye     : [aspectRatio : {Whole(3), Num(5, 2)}, tilt : {Zero, Whole(8)}],
     eyeSymmetry  : {One, Num(11, 10), Num(111, 100)}]

NoseInputs ==
    [width           : {Zero, Num(2, 25), Num(87, 1000)},
     bridgeWidth     : {Zero, Num(1, 10)},
     tipProjection   : {Num(-71, 100), Num(77, 100)},
     nostrilSymmetry : {One, Num(111, 100)}]

JawInputs ==
    [angle          : {Whole(125), Whole(133)},
     lowerFaceRatio : {Num(9, 10), Zero, Num(97, 100)},
     asymmetry      : {One, Num(53, 50)}]

FeatureInputs == [eyes : EyeInputs, nose : NoseInputs, jaw : JawInputs]

(***************************************************************************)
(* calculateDeviation: one call                                            *)
(***************************************************************************)
DevIdle ==
    /\ devValue = Zero
    /\ devRange = <<Zero, Zero>>
    /\ devResult = Pending

RegIdle ==
    /\ regWeights = <<Zero, Zero, Zero>>
    /\ regDeviations = <<Zero, Zero, Zero>>
    /\ regScore = Pending
    /\ regPrev = Pending

ScoreIdle ==
    /\ baselineRanges = DEFAULT_BASELINE_RANGES
    /\ weightingFactors = DEFAULT_WEIGHTING_FACTORS
    /\ features = [none |-> TRUE]
    /\ scores = Pending

FeatIdle ==
    /\ inputLandmarks = [length |-> 0, missing |-> {}, placement |-> "spot", z |-> Absent]
    /\ extracted = Pending
    /\ extractedScores = Pending

\* The errors the image analysis can throw: its own for a missing 2d
\* context, and the DOMExceptions of drawImage and getImageData.
ImageErrors ==
    {"Could not get canvas context for image analysis", "InvalidStateError", "IndexSizeError"}

\* The errors the face analysis can throw: the Error of
\* extractLandmarksByIndices, and the TypeError of reading x of undefined.
FaceErrors == {"Landmark at index not found", "TypeError"}

QualityIdle ==
    /\ thresholds = DEFAULT_QUALITY_THRESHOLDS
    /\ qualityInput = [landmarkCount |-> 0,
                       image |-> Failed("IndexSizeError"),
                       face |-> Failed("Landmark at index not found")]
    /\ qualityResult = Pending

ImageIdle ==
    /\ inputImage = [kind |-> "image", width |-> 0, height |-> 0, context |-> TRUE,
                     pattern |-> "uniform", a |-> <<0, 0, 0>>, b |-> <<0, 0, 0>>]
    /\ imageMetrics = Pending

FaceIdle ==
    /\ faceLandmarks = [length |-> 0, missing |-> {}, placement |-> "spot", z |-> Absent,
                        visibility |-> Absent, dimmed |-> {}]
    /\ faceImage = [width |-> 0, height |-> 0]
    /\ faceMetrics = Pending

LandmarkerIdle ==
    /\ landmarkers = [i \in Instances |-> Unbuilt]
    /\ loads = [run \in Runs |-> UnusedRun]
    /\ openHandles = {}
    /\ lmReturned = Pending
    /\ lmHistory = [i \in Instances |-> FreshHistory]

\* No component is mounted.
CaptureIdle ==
    /\ component = "Capture.tsx"
    /\ ui = [mounted |-> FALSE,
             captureState |-> [mode |-> "camera", status |-> "idle", stream |-> Null],
             isInitialized |-> FALSE, landmarkerRef |-> Null, refsReady |-> FALSE,
             effectStream |-> Null, newOnError |-> FALSE, waiting |-> {}]
    /\ streams = [s \in Streams |-> UnusedStream]
    /\ app = [error |-> "", hasResult |-> FALSE]
    /\ capture = NoCapture
    /\ pending = "none"
    /\ captureTick = FALSE

\* extractEXIFOrientation has not been called.
ExifIdle ==
    /\ exifFile = [bytes |-> <<>>, readable |-> FALSE]
    /\ exifPc = "idle"
    /\ markerOffset = 0
    /\ exifResult = Pending

AppIdle == LandmarkerIdle /\ CaptureIdle /\ ExifIdle

AnalysisIdle == ImageIdle /\ FaceIdle /\ AppIdle

InitDeviation ==
    /\ devRange \in DevRanges
    /\ devValue \in DevValues(devRange)
    /\ devResult = Pending
    /\ RegIdle
    /\ ScoreIdle
    /\ FeatIdle
    /\ QualityIdle
    /\ AnalysisIdle

CalculateDeviation ==
    /\ devResult = Pending
    /\ devResult' = [value |-> calculateDeviation(devValue, devRange)]
    /\ UNCHANGED <<devValue, devRange, regVars, scoreVars, featVars, qualityVars, analysisVars>>

NextDeviation == CalculateDeviation

SpecDeviation == InitDeviation /\ [][NextDeviation]_vars

(***************************************************************************)
(* A region score as its component deviations change                       *)
(***************************************************************************)
InitRegion ==
    /\ regWeights \in RegWeightSets
    /\ regDeviations \in RegDeviationValues \X RegDeviationValues \X RegDeviationValues
    /\ regScore = Pending
    /\ regPrev = Pending
    /\ DevIdle
    /\ ScoreIdle
    /\ FeatIdle
    /\ QualityIdle
    /\ AnalysisIdle

\* The last two statements of calculateEyeScore, calculateNoseScore and
\* calculateJawScore.
ScoreRegion ==
    /\ regScore = Pending
    /\ regScore' = [value |-> deviationToScore(weightedDeviation(regWeights, regDeviations))]
    /\ UNCHANGED <<regWeights, regDeviations, regPrev, devVars, scoreVars, featVars, qualityVars, analysisVars>>

\* The same region scored again with one component deviation raised.
RaiseDeviation ==
    /\ regScore # Pending
    /\ \E i \in 1..3 : \E d \in RegDeviationValues :
          /\ Lt(regDeviations[i], d)
          /\ regDeviations' = [regDeviations EXCEPT ![i] = d]
          /\ regScore' = [value |-> deviationToScore(weightedDeviation(regWeights, regDeviations'))]
    /\ regPrev' = regScore
    /\ UNCHANGED <<regWeights, devVars, scoreVars, featVars, qualityVars, analysisVars>>

NextRegion == ScoreRegion \/ RaiseDeviation

SpecRegion == InitRegion /\ [][NextRegion]_vars

(***************************************************************************)
(* calculateQualityScores: one call on a constructed calculator            *)
(***************************************************************************)
InitScores ==
    /\ baselineRanges = DEFAULT_BASELINE_RANGES
    /\ weightingFactors \in {DEFAULT_WEIGHTING_FACTORS, HEAVY_WEIGHTING_FACTORS}
    /\ features \in FeatureInputs
    /\ scores = Pending
    /\ DevIdle
    /\ RegIdle
    /\ FeatIdle
    /\ QualityIdle
    /\ AnalysisIdle

CalculateQualityScores ==
    /\ scores = Pending
    /\ scores' = calculateQualityScores(features, baselineRanges, weightingFactors)
    /\ UNCHANGED <<baselineRanges, weightingFactors, features, devVars, regVars, featVars, qualityVars, analysisVars>>

NextScores == CalculateQualityScores

SpecScores == InitScores /\ [][NextScores]_vars

(***************************************************************************)
(* calculateFacialFeatures: one call                                       *)
(***************************************************************************)
\* Lengths of the landmark array: none, the ten of the scenario, one short,
\* the required count and the 478 points of a model with iris landmarks.
LandmarkLengths == {0, 10, RequiredLandmarks - 1, RequiredLandmarks, RequiredLandmarks + 10}

\* Indices that may hold undefined: an eye corner, a chin point, the last
\* nostril point.
MissingChoices == SUBSET {33, 9, 454}

LandmarkInputs ==
    [length    : LandmarkLengths,
     missing   : MissingChoices,
     placement : {"row", "column", "spot"},
     z         : {Absent, Num(-71, 100)}]

InitFeatures ==
    /\ inputLandmarks \in LandmarkInputs
    /\ extracted = Pending
    /\ extractedScores = Pending
    /\ DevIdle
    /\ RegIdle
    /\ ScoreIdle
    /\ QualityIdle
    /\ AnalysisIdle

CalculateFacialFeatures ==
    /\ extracted = Pending
    /\ extracted' = calculateFacialFeatures(inputLandmarks)
    /\ UNCHANGED <<inputLandmarks, extractedScores, devVars, regVars, scoreVars, qualityVars,
                   analysisVars>>

\* The features calculateFacialFeatures returned are scored by a calculator
\* constructed without arguments: default baselines and weights.
ScoreExtractedFeatures ==
    /\ extracted # Pending
    /\ ~extracted.thrown
    /\ extractedScores = Pending
    /\ extractedScores' = calculateQualityScores(extracted.features, DEFAULT_BASELINE_RANGES,
                                                 DEFAULT_WEIGHTING_FACTORS)
    /\ UNCHANGED <<inputLandmarks, extracted, devVars, regVars, scoreVars, qualityVars,
                   analysisVars>>

NextFeatures == CalculateFacialFeatures \/ ScoreExtractedFeatures

SpecFeatures == InitFeatures /\ [][NextFeatures]_vars

(***************************************************************************)
(* QualityValidator.validateImage: one call                                *)
(***************************************************************************)
\* A stricter configuration passed to the constructor.
STUDIO_QUALITY_THRESHOLDS ==
    [faceAngle    |-> [maxYaw |-> Whole(5), maxPitch |-> Whole(5), maxRoll |-> Whole(5)],
     brightness   |-> [min |-> Whole(100), max |-> Whole(150)],
     contrast     |-> [min |-> Whole(40)],
     blur         |-> [max |-> Num(1, 25)],
     faceSize     |-> [minWidth |-> Num(4, 10), minHeight |-> Num(5, 10),
                       maxWidth |-> Num(7, 10), maxHeight |-> Num(8, 10)],
     facePosition |-> [centerTolerance |-> Num(1, 10)]]

\* What analyzeImageQuality yields: the metrics validateImage reads, or a
\* throw (no 2d context, a canvas without area).  A blur of NaN is what
\* estimateBlur returns when it visits no pixel.
ImageOutcomes ==
    [thrown     : {FALSE},
     brightness : {Whole(50), Whole(128), Whole(220)},
     contrast   : {Whole(20), Whole(45), Whole(70)},
     blur       : {Num(1, 100), Num(1, 20), Num(1, 2), NaN}]
    \cup {Failed(error) : error \in ImageErrors}

\* What analyzeFaceQuality yields: the metrics validateImage reads, or a
\* throw (a landmark index beyond the list, an undefined landmark).
FaceOutcomes ==
    [thrown       : {FALSE},
     angle        : [yaw : {Zero, Whole(-20)}, pitch : {Zero, Whole(20)},
                     roll : {Zero, Whole(12)}],
     size         : [width : {Num(1, 5), Num(1, 2), Num(9, 10)},
                     height : {Num(1, 2), Num(19, 20)}],
     position     : [offsetFromCenter : {Zero, Num(3, 10)}],
     completeness : {One, Num(19, 20), Num(3, 4)},
     symmetry     : {Num(19, 20), Num(9, 10), NaN}]
    \cup {Failed(error) : error \in FaceErrors}

\* Lengths of the landmark list: empty, the ten of the scenario, a full mesh.
QualityLandmarkCounts == {0, 10, RequiredLandmarks}

\* The face analysis reads landmark 466 (RIGHT_EYE), so it throws on every
\* list shorter than 467.
QualityInputs ==
    {input \in [landmarkCount : QualityLandmarkCounts,
                image : ImageOutcomes,
                face : FaceOutcomes] :
        input.landmarkCount < 467 => input.face = Failed("Landmark at index not found")}

InitQuality ==
    /\ thresholds \in {DEFAULT_QUALITY_THRESHOLDS, STUDIO_QUALITY_THRESHOLDS}
    /\ qualityInput \in QualityInputs
    /\ qualityResult = Pending
    /\ DevIdle
    /\ RegIdle
    /\ ScoreIdle
    /\ FeatIdle
    /\ AnalysisIdle

ValidateImage ==
    /\ qualityResult = Pending
    /\ qualityResult' = validateImage(qualityInput.landmarkCount, qualityInput.image,
                                      qualityInput.face, thresholds)
    /\ UNCHANGED <<thresholds, qualityInput, devVars, regVars, scoreVars, featVars, analysisVars>>

NextQuality == ValidateImage

SpecQuality == InitQuality /\ [][NextQuality]_vars

(***************************************************************************)
(* QualityValidator.analyzeImageQuality: one call                          *)
(***************************************************************************)
\* The largest width and height of an image.
MaxSide == 4

\* Black, grey, white and a blue whose red channel is 0.
Colours == {<<0, 0, 0>>, <<128, 128, 128>>, <<255, 255, 255>>, <<0, 0, 250>>}

\* The images analysed: every width and height up to MaxSide, zero
\* included; two colours in halves only where the pixels split evenly, so
\* that the standard deviation of the luminance is rational.
ImageElements ==
    {image \in [kind    : {"image", "canvas"},
                width   : 0..MaxSide,
                height  : 0..MaxSide,
                context : BOOLEAN,
                pattern : {"uniform", "halves"},
                a       : Colours,
                b       : Colours] :
        /\ image.pattern = "uniform" => image.b = image.a
        /\ image.pattern = "halves" =>
              /\ image.a # image.b
              /\ image.width * image.height > 0
              /\ (image.width * image.height) % 2 = 0}

InitImage ==
    /\ inputImage \in ImageElements
    /\ imageMetrics = Pending
    /\ FaceIdle
    /\ AppIdle
    /\ DevIdle
    /\ RegIdle
    /\ ScoreIdle
    /\ FeatIdle
    /\ QualityIdle

AnalyzeImageQuality ==
    /\ imageMetrics = Pending
    /\ imageMetrics' = analyzeImageQuality(inputImage)
    /\ UNCHANGED <<inputImage, faceVars, appVars, devVars, regVars, scoreVars, featVars,
                   qualityVars>>

NextImage == AnalyzeImageQuality

SpecImage == InitImage /\ [][NextImage]_vars

(***************************************************************************)
(* QualityValidator.analyzeFaceQuality: one call                           *)
(***************************************************************************)
\* Lengths of the landmark list: none, ten, one that ends between the face
\* outline (up to 454) and the right eye (up to 466), one short of the full
\* mesh, the full mesh and the 478 points of a model with iris landmarks.
FaceLandmarkLengths ==
    {0, 10, 460, RequiredLandmarks - 1, RequiredLandmarks, RequiredLandmarks + 10}

\* Points that may carry a visibility: an eye corner and a chin point, which
\* are key landmarks, and the top of the face outline, which is not.
DimmedChoices == SUBSET {33, 200, 10}

\* The visibilities carried: below, at and above one half.
Visibilities == {Num(3, 10), Num(1, 2), Num(9, 10)}

FaceLandmarkInputs ==
    {landmarks \in [length     : FaceLandmarkLengths,
                    missing    : SUBSET {33, 454},
                    placement  : {"row", "column", "spot", "wide"},
                    z          : {Absent},
                    visibility : Visibilities \cup {Absent},
                    dimmed     : DimmedChoices] :
        landmarks.dimmed = {} <=> landmarks.visibility = Absent}

\* naturalWidth and naturalHeight of the image: portrait, landscape, and an
\* image that has not loaded.
FaceImages ==
    {[width |-> 60, height |-> 80], [width |-> 80, height |-> 60],
     [width |-> 0, height |-> 0]}

InitFace ==
    /\ faceLandmarks \in FaceLandmarkInputs
    /\ faceImage \in FaceImages
    /\ faceMetrics = Pending
    /\ ImageIdle
    /\ AppIdle
    /\ DevIdle
    /\ RegIdle
    /\ ScoreIdle
    /\ FeatIdle
    /\ QualityIdle

AnalyzeFaceQuality ==
    /\ faceMetrics = Pending
    /\ faceMetrics' = analyzeFaceQuality(faceLandmarks, faceImage)
    /\ UNCHANGED <<faceLandmarks, faceImage, imageVars, appVars, devVars, regVars, scoreVars,
                   featVars, qualityVars>>

NextFace == AnalyzeFaceQuality

SpecFace == InitFace /\ [][NextFace]_vars

(***************************************************************************)
(* MediaPipeFaceLandmarker: one instance and its callers                   *)
(***************************************************************************)
\* Everything but the landmarkers and the component.
restVars ==
    <<devVars, regVars, scoreVars, featVars, qualityVars, imageVars, faceVars, exifVars>>

RestIdle ==
    /\ DevIdle
    /\ RegIdle
    /\ ScoreIdle
    /\ FeatIdle
    /\ QualityIdle
    /\ ImageIdle
    /\ FaceIdle
    /\ ExifIdle

\* new MediaPipeFaceLandmarker() has been evaluated once.
InitLandmarker ==
    /\ landmarkers = [i \in Instances |-> IF i = 1 THEN NewLandmarker ELSE Unbuilt]
    /\ loads = [run \in Runs |-> UnusedRun]
    /\ openHandles = {}
    /\ lmReturned = Pending
    /\ lmHistory = [i \in Instances |-> FreshHistory]
    /\ CaptureIdle
    /\ RestIdle

NextLandmarker ==
    \/ \E i \in Instances : LmInitialize(i) /\ UNCHANGED <<captureVars, restVars>>
    \/ \E run \in Runs : LoadAdvance(run) /\ UNCHANGED <<captureVars, restVars>>
    \/ \E run \in Runs : LoadComplete(run) /\ UNCHANGED <<captureVars, restVars>>
    \/ \E run \in Runs : LoadFail(run) /\ UNCHANGED <<captureVars, restVars>>
    \/ \E i \in Instances, detection \in Detections :
           LmDetect(i, detection) /\ UNCHANGED <<captureVars, restVars>>
    \/ \E i \in Instances : LmDispose(i) /\ UNCHANGED <<captureVars, restVars>>

SpecLandmarker == InitLandmarker /\ [][NextLandmarker]_vars

(***************************************************************************)
(* Capture: one mounted component, its user, the camera and the loads      *)
(***************************************************************************)
\* The first render of the component.
FirstRender ==
    [mounted |-> TRUE,
     captureState |-> [mode |-> "camera", status |-> "idle", stream |-> Null],
     isInitialized |-> FALSE, landmarkerRef |-> Null, refsReady |-> FALSE,
     effectStream |-> Null, newOnError |-> FALSE, waiting |-> {}]

\* The program when the component has rendered first and its initialization
\* effect has not run yet.
BeforeMount ==
    [ui |-> FirstRender,
     lm |-> [i \in Instances |-> Unbuilt],
     loads |-> [run \in Runs |-> UnusedRun],
     open |-> {},
     hist |-> [i \in Instances |-> FreshHistory],
     streams |-> [s \in Streams |-> UnusedStream],
     app |-> [error |-> "", hasResult |-> FALSE],
     capture |-> NoCapture,
     blocked |-> FALSE]

\* The variables after a handler has run on the world w.
Becomes(w) ==
    /\ ~w.blocked
    /\ ui' = w.ui
    /\ landmarkers' = w.lm
    /\ loads' = w.loads
    /\ openHandles' = w.open
    /\ lmHistory' = w.hist
    /\ streams' = w.streams
    /\ app' = w.app
    /\ capture' = w.capture
    /\ UNCHANGED <<component, lmReturned, restVars>>

\* What validateImage and calculateFacialFeatures do with an image, and
\* whether a canvas has a 2d context.
Outcomes == {"ok", "throws"}

\* The component is mounted and its initialization effect has run.
InitCapture ==
    /\ component \in Components
    /\ LET w == initializeComponents(BeforeMount)
       IN  /\ ui = w.ui
           /\ landmarkers = w.lm
           /\ loads = w.loads
           /\ openHandles = w.open
           /\ lmHistory = w.hist
           /\ streams = w.streams
           /\ app = w.app
           /\ capture = w.capture
    /\ lmReturned = Pending
    /\ pending = "none"
    /\ captureTick = FALSE
    /\ RestIdle

\* The initialization effect runs again: its cleanup, then its body.
RunEffect ==
    /\ effectDue
    /\ Becomes(initializeComponents(cleanup(World)))
    /\ UNCHANGED <<pending, captureTick>>

\* A wait of doInitialize ends well.
CaptureLoadAdvance(run) ==
    /\ ~effectDue
    /\ LoadAdvance(run)
    /\ UNCHANGED <<captureVars, restVars>>

\* doInitialize completes, and initializeComponents, if it waits for this
\* run, goes on.
CaptureLoadComplete(run) ==
    /\ ~effectDue
    /\ loads[run].pc = "create"
    /\ Becomes(initializationSettled(
           [World EXCEPT !.loads[run].pc = LoadAfter(@),
                         !.lm[loads[run].owner] = doInitializeCompletes(@, run),
                         !.open = @ \cup {run}],
           run, TRUE))
    /\ UNCHANGED <<pending, captureTick>>

\* doInitialize fails, and initializeComponents, if it waits for this run,
\* catches the error.
CaptureLoadFail(run) ==
    /\ ~effectDue
    /\ loads[run].pc \in {"import", "fileset", "create"}
    /\ Becomes(initializationSettled([World EXCEPT !.loads[run].pc = "rejected"],
                                     run, FALSE))
    /\ UNCHANGED <<pending, captureTick>>

\* The start button, shown in camera mode when idle and enabled when
\* isInitialized.
StartCamera ==
    /\ ~effectDue
    /\ ui.mounted
    /\ ui.captureState.mode = "camera"
    /\ ui.captureState.status = "idle"
    /\ ui.isInitialized
    /\ Becomes(startCamera(World))
    /\ UNCHANGED <<pending, captureTick>>

\* getUserMedia resolves with stream s.
CameraGranted(s) ==
    /\ ~effectDue
    /\ streams[s].request = "getUserMedia"
    /\ Becomes(cameraGranted(World, s))
    /\ UNCHANGED <<pending, captureTick>>

\* getUserMedia rejects.
CameraDenied(s) ==
    /\ ~effectDue
    /\ streams[s].request = "getUserMedia"
    /\ Becomes(cameraFailed(World, s))
    /\ UNCHANGED <<pending, captureTick>>

\* The video element has loaded the metadata of stream s.
VideoReady(s) ==
    /\ ~effectDue
    /\ streams[s].request = "metadata"
    /\ Becomes(cameraReady(World, s))
    /\ UNCHANGED <<pending, captureTick>>

\* The video element reports an error for stream s.
VideoFailed(s) ==
    /\ ~effectDue
    /\ streams[s].request = "metadata"
    /\ Becomes(cameraFailed(World, s))
    /\ UNCHANGED <<pending, captureTick>>

\* The stop button, shown in camera mode when the camera is active.
StopCamera ==
    /\ ~effectDue
    /\ ui.mounted
    /\ ui.captureState.mode = "camera"
    /\ ui.captureState.status = "camera_active"
    /\ Becomes(stopCamera(World))
    /\ UNCHANGED <<pending, captureTick>>

\* captureImage() is called; at most one capture or file is processed at a
\* time.
CaptureImage(detection, validation, extraction, context) ==
    /\ ~effectDue
    /\ ui.mounted
    /\ pending = "none"
    /\ LET w == captureImage(World, detection, validation, extraction, context)
       IN  /\ Becomes(w)
           /\ pending' = IF w.capture.kind # "none" /\ ~w.capture.settled
                         THEN "frame" ELSE "none"
    /\ captureTick' = ~captureTick

\* The image made from the canvas has loaded: processImage runs on it.
ImageLoaded(detection, validation, extraction, context) ==
    /\ ~effectDue
    /\ pending = "frame"
    /\ Becomes(processImage(World, detection, validation, extraction, context))
    /\ pending' = "none"
    /\ UNCHANGED captureTick

\* FileUpload, shown in file mode and disabled while loading, hands over a
\* file.
SelectFile ==
    /\ ~effectDue
    /\ component = "part_011"
    /\ ui.mounted
    /\ ui.captureState.mode = "file"
    /\ ui.captureState.status \notin {"requesting_camera", "capturing", "processing"}
    /\ pending = "none"
    /\ Becomes(handleFileSelected(World))
    /\ pending' = "file"
    /\ UNCHANGED captureTick

\* FileUpload refuses a file.
RefuseFile ==
    /\ ~effectDue
    /\ component = "part_011"
    /\ ui.mounted
    /\ ui.captureState.mode = "file"
    /\ ui.captureState.status \notin {"requesting_camera", "capturing", "processing"}
    /\ Becomes(handleFileError(World))
    /\ UNCHANGED <<pending, captureTick>>

\* processImageFile resolves: processImage runs on the corrected image.
FileProcessed(detection, validation, extraction, context) ==
    /\ ~effectDue
    /\ pending = "file"
    /\ Becomes(processImage(World, detection, validation, extraction, context))
    /\ pending' = "none"
    /\ UNCHANGED captureTick

\* processImageFile rejects.
FileFailed ==
    /\ ~effectDue
    /\ pending = "file"
    /\ Becomes(processingFailed(World, "PROCESSING_FAILED"))
    /\ pending' = "none"
    /\ UNCHANGED captureTick

\* A mode button, disabled while loading.
ModeSwitch(newMode) ==
    /\ ~effectDue
    /\ component = "part_011"
    /\ ui.mounted
    /\ ui.captureState.status \notin {"requesting_camera", "capturing", "processing"}
    /\ Becomes(handleModeSwitch(World, newMode))
    /\ UNCHANGED <<pending, captureTick>>

\* The retry button, shown in camera mode with an error.
Retry ==
    /\ ~effectDue
    /\ ui.mounted
    /\ ui.captureState.mode = "camera"
    /\ ui.captureState.status = "error"
    /\ Becomes(replaced(World, "idle"))
    /\ UNCHANGED <<pending, captureTick>>

\* The component is unmounted: the cleanup of its effect runs.
Unmount ==
    /\ ~effectDue
    /\ ui.mounted
    /\ Becomes([cleanup(World) EXCEPT !.ui.mounted = FALSE])
    /\ UNCHANGED <<pending, captureTick>>

NextCapture ==
    \/ RunEffect
    \/ \E run \in Runs : CaptureLoadAdvance(run)
    \/ \E run \in Runs : CaptureLoadComplete(run)
    \/ \E run \in Runs : CaptureLoadFail(run)
    \/ StartCamera
    \/ \E s \in Streams : CameraGranted(s)
    \/ \E s \in Streams : CameraDenied(s)
    \/ \E s \in Streams : VideoReady(s)
    \/ \E s \in Streams : VideoFailed(s)
    \/ StopCamera
    \/ \E detection \in Detections, validation \in Outcomes, extraction \in Outcomes,
          context \in BOOLEAN :
           CaptureImage(detection, validation, extraction, context)
    \/ \E detection \in Detections, validation \in Outcomes, extraction \in Outcomes,
          context \in BOOLEAN :
           ImageLoaded(detection, validation, extraction, context)
    \/ SelectFile
    \/ RefuseFile
    \/ \E detection \in Detections, validation \in Outcomes, extraction \in Outcomes,
          context \in BOOLEAN :
           FileProcessed(detection, validation, extraction, context)
    \/ FileFailed
    \/ \E newMode \in {"camera", "file"} : ModeSwitch(newMode)
    \/ Retry
    \/ Unmount

SpecCapture == InitCapture /\ [][NextCapture]_vars

(***************************************************************************)
(* extractEXIFOrientation: one call on one file                            *)
(***************************************************************************)
\* An EXIF segment (APP1) with one IFD: byte order, the offset of the IFD
\* from the TIFF header, and its entries, each a tag and a value.
ExifSegment(littleEndian, ifdBytes, entries) ==
    LET word(n) == IF littleEndian THEN <<n % 256, n \div 256>>
                   ELSE <<n \div 256, n % 256>>
        RECURSIVE entryBytes(_)
        entryBytes(k) ==
            IF k > Len(entries) THEN <<>>
            ELSE word(entries[k][1]) \o word(3) \o word(0) \o word(1)
                 \o word(entries[k][2]) \o word(0) \o entryBytes(k + 1)
        tiff == (IF littleEndian THEN <<73, 73>> ELSE <<77, 77>>) \o word(42)
                \o ifdBytes \o word(Len(entries)) \o entryBytes(1)
    IN  <<255, 225, 0, 8 + Len(tiff)>> \o <<69, 120, 105, 102, 0, 0>> \o tiff

\* The segments files are made of: APP0, a segment of length 0, a segment
\* whose length leaves the file, the start of the image data, an APP1
\* segment that is not EXIF, and EXIF segments of either byte order with
\* orientation 6, 8, 9 and 0, with the orientation as second entry, without
\* it, and with an IFD offset of 2^31 or more.
Segments ==
    {<<255, 224, 0, 4, 74, 70>>,
     <<255, 224, 0, 0>>,
     <<255, 224, 255, 255>>,
     <<255, 218, 0, 2>>,
     <<255, 225, 0, 6, 104, 116, 116, 112>>,
     ExifSegment(TRUE, <<8, 0, 0, 0>>, <<<<274, 6>>>>),
     ExifSegment(FALSE, <<0, 0, 0, 8>>, <<<<274, 8>>>>),
     ExifSegment(TRUE, <<8, 0, 0, 0>>, <<<<274, 9>>>>),
     ExifSegment(FALSE, <<0, 0, 0, 8>>, <<<<274, 0>>>>),
     ExifSegment(FALSE, <<0, 0, 0, 8>>, <<<<271, 5>>, <<274, 3>>>>),
     ExifSegment(TRUE, <<8, 0, 0, 0>>, <<<<271, 5>>>>),
     ExifSegment(FALSE, <<255, 0, 0, 8>>, <<<<274, 6>>>>)}

\* The largest number of segments in a file.
MaxSegments == 2

\* The files with at most n segments after their first bytes.
RECURSIVE FilesOf(_)
FilesOf(n) ==
    IF n = 0 THEN {<<255, 216>>, <<137, 80>>, <<>>}
    ELSE FilesOf(n - 1) \cup {file \o segment : file \in FilesOf(n - 1), segment \in Segments}

\* The numbers of bytes cut off the end of a file.
Cuts == {0, 1, 3, 14}

ExifFiles ==
    {[bytes |-> SubSeq(file, 1, Len(file) - cut), readable |-> readable] :
         file \in FilesOf(MaxSegments), cut \in Cuts, readable \in BOOLEAN}

InitExif ==
    /\ exifFile \in ExifFiles
    /\ exifPc = "called"
    /\ markerOffset = 0
    /\ exifResult = Pending
    /\ landmarkers = [i \in Instances |-> Unbuilt]
    /\ loads = [run \in Runs |-> UnusedRun]
    /\ openHandles = {}
    /\ lmReturned = Pending
    /\ lmHistory = [i \in Instances |-> FreshHistory]
    /\ CaptureIdle
    /\ DevIdle
    /\ RegIdle
    /\ ScoreIdle
    /\ FeatIdle
    /\ QualityIdle
    /\ ImageIdle
    /\ FaceIdle

\* extractEXIFOrientation(file) up to its loop
ExtractEXIFOrientation ==
    /\ exifPc = "called"
    /\ LET out == extractionBegins(exifFile)
       IN  IF out.done
           THEN exifPc' = "resolved" /\ exifResult' = [orientation |-> out.result] /\ UNCHANGED markerOffset
           ELSE exifPc' = "scanning" /\ markerOffset' = out.offset /\ UNCHANGED exifResult
    /\ UNCHANGED <<exifFile, landmarkerVars, captureVars>>
    /\ UNCHANGED <<devVars, regVars, scoreVars, featVars, qualityVars, imageVars, faceVars>>

\* One turn of the marker loop
ScanMarker ==
    /\ exifPc = "scanning"
    /\ LET out == markerScan(exifFile.bytes, markerOffset)
       IN  IF out.done
           THEN exifPc' = "resolved" /\ exifResult' = [orientation |-> out.result] /\ UNCHANGED markerOffset
           ELSE exifPc' = "scanning" /\ markerOffset' = out.offset /\ UNCHANGED exifResult
    /\ UNCHANGED <<exifFile, landmarkerVars, captureVars>>
    /\ UNCHANGED <<devVars, regVars, scoreVars, featVars, qualityVars, imageVars, faceVars>>

NextExif == ExtractEXIFOrientation \/ ScanMarker

SpecExif == InitExif /\ [][NextExif]_vars

(***************************************************************************)
(* Properties of the scoring engine                                        *)
(***************************************************************************)
\* An integer in [0, 100].
IsScore(a) == a[2] = 1 /\ a[1] >= 0 /\ a[1] <= 100

\* C4: for every FacialFeatures value, each of eyes, nose, jaw and overall
\* returned by calculateQualityScores is an integer in [0, 100].
C4_ScoresAreIntegersInRange ==
    scores # Pending =>
        /\ IsScore(scores.eyes)
        /\ IsScore(scores.nose)
        /\ IsScore(scores.jaw)
        /\ IsScore(scores.overall)

\* How far a value lies outside the band [min, max]; 0 inside it.
distanceOutside(value, range) ==
    IF Lt(value, range[1]) THEN Sub(range[1], value)
    ELSE IF Gt(value, range[2]) THEN Sub(value, range[2])
    ELSE Zero

\* C5: with min <= max, calculateDeviation returns 0 for min <= value <= max
\* and min(|value - (min + max) / 2| / (max - min), 1) otherwise; the result
\* is never negative and never exceeds 1.  Stated case by case: outside a
\* band of positive width the result times the width is the distance from
\* the centre while that distance is below the width, and 1 from there on;
\* outside a band of zero width it is 1; NaN yields NaN.
C5_DeviationFormula ==
    devResult # Pending =>
        LET r      == devResult.value
            min    == devRange[1]
            max    == devRange[2]
            span   == Sub(max, min)
            centre == Div(Add(min, max), Whole(2))
            dist   == JsAbs(Sub(devValue, centre))
        IN  /\ ~Lt(r, Zero)
            /\ ~Gt(r, One)
            /\ (Le(min, devValue) /\ Le(devValue, max)) => r = Zero
            /\ IsNaN(devValue) => IsNaN(r)
            /\ (Lt(devValue, min) \/ Gt(devValue, max)) =>
                  IF Gt(span, Zero) /\ Lt(dist, span) THEN Mul(r, span) = dist ELSE r = One

\* C5 witness: a call with a value outside its band whose deviation lies
\* strictly between 1/2 and 1.
C5_Witness ==
    /\ devResult # Pending
    /\ Gt(devValue, devRange[2])
    /\ Gt(devResult.value, Num(1, 2))
    /\ Lt(devResult.value, One)

\* C6: outside the band the deviation is in proportion to how far the value
\* lies outside the band (in units of the band's width): close to 0 just
\* outside an edge, growing with the distance from the edge up to the cap 1.
C6_DegradesFromBandEdge ==
    (devResult # Pending /\ IsFinite(devValue) /\ Lt(devRange[1], devRange[2])) =>
        Le(devResult.value, Div(distanceOutside(devValue, devRange), Sub(devRange[2], devRange[1])))

\* C7 as stated: overall is the rounded mean of the three region scores the
\* same result reports.
C7_OverallIsMeanOfReported ==
    scores # Pending =>
        scores.overall = JsRound(Div(Add(Add(scores.eyes, scores.nose), scores.jaw), Whole(3)))

\* C7 as amended: overall is the rounded mean of the three clamped region
\* scores before they are rounded (NaN when one of them is NaN); when the
\* scores are finite it is within 1 of the mean of the reported scores.
C7_OverallIsRoundedMeanOfUnrounded ==
    scores # Pending =>
        LET e == calculateEyeScore(features.eyes, baselineRanges, weightingFactors)
            n == calculateNoseScore(features.nose, baselineRanges, weightingFactors)
            j == calculateJawScore(features.jaw, baselineRanges, weightingFactors)
            sum == scores.eyes[1] + scores.nose[1] + scores.jaw[1]
        IN  /\ scores.overall = JsRound(Div(Add(Add(e, n), j), Whole(3)))
            /\ (IsNaN(e) \/ IsNaN(n) \/ IsNaN(j)) <=> IsNaN(scores.overall)
            /\ IsFinite(scores.overall) =>
                  /\ 3 * scores.overall[1] - sum <= 3
                  /\ sum - 3 * scores.overall[1] <= 3

\* C7 witness: a result whose overall differs from the rounded mean of its
\* reported region scores.
C7_Witness ==
    /\ scores # Pending
    /\ IsFinite(scores.overall)
    /\ scores.overall # JsRound(Div(Add(Add(scores.eyes, scores.nose), scores.jaw), Whole(3)))

\* Every scored quantity lies inside its baseline interval.
AllInsideBaselines(f, ranges) ==
    LET in(v, range) == Le(range[1], v) /\ Le(v, range[2])
    IN  /\ in(Div(Add(f.eyes.leftEye.aspectRatio, f.eyes.rightEye.aspectRatio), Whole(2)),
              ranges.eyes.aspectRatio)
        /\ in(f.eyes.eyeSymmetry, ranges.eyes.symmetry)
        /\ in(Div(Add(JsAbs(f.eyes.leftEye.tilt), JsAbs(f.eyes.rightEye.tilt)), Whole(2)),
              ranges.eyes.tilt)
        /\ in(Div(f.nose.width, f.nose.bridgeWidth), ranges.nose.widthRatio)
        /\ in(JsAbs(f.nose.tipProjection), ranges.nose.projection)
        /\ in(f.nose.nostrilSymmetry, ranges.nose.symmetry)
        /\ in(f.jaw.angle, ranges.jaw.angle)
        /\ in(f.jaw.lowerFaceRatio, ranges.jaw.chinRatio)
        /\ in(f.jaw.asymmetry, ranges.jaw.asymmetry)

\* The midpoint of a baseline interval.
Midpoint(range) == Div(Add(range[1], range[2]), Whole(2))

\* Every scored quantity is the midpoint of its default baseline.
AtDefaultMidpoints(f) ==
    /\ f.eyes.leftEye.aspectRatio = Midpoint(DEFAULT_BASELINE_RANGES.eyes.aspectRatio)
    /\ f.eyes.rightEye.aspectRatio = Midpoint(DEFAULT_BASELINE_RANGES.eyes.aspectRatio)
    /\ f.eyes.eyeSymmetry = Midpoint(DEFAULT_BASELINE_RANGES.eyes.symmetry)
    /\ f.eyes.leftEye.tilt = Midpoint(DEFAULT_BASELINE_RANGES.eyes.tilt)
    /\ f.eyes.rightEye.tilt = Midpoint(DEFAULT_BASELINE_RANGES.eyes.tilt)
    /\ Div(f.nose.width, f.nose.bridgeWidth) = Midpoint(DEFAULT_BASELINE_RANGES.nose.widthRatio)
    /\ JsAbs(f.nose.tipProjection) = Midpoint(DEFAULT_BASELINE_RANGES.nose.projection)
    /\ f.nose.nostrilSymmetry = Midpoint(DEFAULT_BASELINE_RANGES.nose.symmetry)
    /\ f.jaw.angle = Midpoint(DEFAULT_BASELINE_RANGES.jaw.angle)
    /\ f.jaw.lowerFaceRatio = Midpoint(DEFAULT_BASELINE_RANGES.jaw.chinRatio)
    /\ f.jaw.asymmetry = Midpoint(DEFAULT_BASELINE_RANGES.jaw.asymmetry)

\* C8: when every scored quantity lies inside its baseline interval,
\* calculateQualityScores returns eyes = nose = jaw = overall = 100.
C8_InsideBaselinesScores100 ==
    (scores # Pending /\ AllInsideBaselines(features, baselineRanges)) =>
        /\ scores.eyes = Whole(100)
        /\ scores.nose = Whole(100)
        /\ scores.jaw = Whole(100)
        /\ scores.overall = Whole(100)

\* C8 witness: the default baseline midpoints, scored with the default
\* configuration.
C8_Witness ==
    /\ scores # Pending
    /\ weightingFactors = DEFAULT_WEIGHTING_FACTORS
    /\ AtDefaultMidpoints(features)
    /\ scores.overall = Whole(100)

\* C9: with the weights and the other two deviations fixed, raising one
\* component deviation never raises the clamped region score.
C9_RaisingDeviationNeverRaisesScore ==
    [][(regScore # Pending /\ regScore' # Pending) => Le(regScore'.value, regScore.value)]_vars

\* C9 witness: a region scored again after one deviation was raised, with a
\* strictly lower score.
C9_Witness ==
    /\ regPrev # Pending
    /\ regScore # Pending
    /\ Lt(regScore.value, regPrev.value)

(***************************************************************************)
(* Properties of the feature extractor                                     *)
(***************************************************************************)
\* C10: calculateFacialFeatures called with fewer than 468 landmarks throws
\* the error with code INSUFFICIENT_LANDMARKS, whatever the array holds, and
\* returns no FacialFeatures.
C10_ShortLandmarksAreInsufficient ==
    (extracted # Pending /\ inputLandmarks.length < 468) =>
        /\ extracted.thrown
        /\ extracted.code = "INSUFFICIENT_LANDMARKS"
        /\ "features" \notin DOMAIN extracted

\* C10 witness: the call with ten landmarks has thrown.
C10_Witness ==
    /\ extracted # Pending
    /\ inputLandmarks.length = 10
    /\ extracted.thrown
    /\ extracted.code = "INSUFFICIENT_LANDMARKS"

\* The indices of the regions calculateFacialFeatures extracts.
MeasuredIndices ==
    UNION {{LANDMARK_INDICES[region][k] : k \in 1..Len(LANDMARK_INDICES[region])} :
              region \in {"LEFT_EYE", "RIGHT_EYE", "NOSE_TIP", "NOSE_BRIDGE", "NOSTRIL_LEFT",
                          "NOSTRIL_RIGHT", "JAW_LEFT", "JAW_RIGHT", "CHIN"}}

\* C11: with at least 468 entries of which a required index of a named
\* region holds no point, calculateFacialFeatures throws the error with code
\* INVALID_INPUT and returns no FacialFeatures.
C11_MissingLandmarkIsInvalidInput ==
    (/\ extracted # Pending
     /\ inputLandmarks.length >= 468
     /\ inputLandmarks.missing \cap MeasuredIndices # {}) =>
        /\ extracted.thrown
        /\ extracted.code = "INVALID_INPUT"
        /\ "features" \notin DOMAIN extracted

\* What the code does there: the Error of extractLandmarksByIndices is
\* caught and thrown again under the code CALCULATION_ERROR.
C11_MissingLandmarkIsCalculationError ==
    (/\ extracted # Pending
     /\ inputLandmarks.length >= 468
     /\ inputLandmarks.missing \cap MeasuredIndices # {}) =>
        /\ extracted.thrown
        /\ extracted.code = "CALCULATION_ERROR"
        /\ "features" \notin DOMAIN extracted

\* C30: for every landmark set of at least 468 points with a non-zero jaw
\* width, calculateFacialFeatures reports lowerFaceRatio = 0 (CHIN[4] and
\* CHIN[12] are the same landmark), and the jaw score of the extracted
\* features under the default baselines and weights does not exceed 70.
C30_LowerFaceRatioIsZero ==
    (/\ extracted # Pending
     /\ ~extracted.thrown
     /\ inputLandmarks.length >= 468
     /\ extracted.features.jaw.width # Zero) =>
        /\ At(LANDMARK_INDICES.CHIN, 4) = At(LANDMARK_INDICES.CHIN, 12)
        /\ extracted.features.jaw.lowerFaceRatio = Zero
        /\ extractedScores # Pending => ~Gt(extractedScores.jaw, Whole(70))

\* A full mesh with a jaw of non-zero width, extracted and scored.
C30_Witness ==
    /\ extracted # Pending
    /\ ~extracted.thrown
    /\ inputLandmarks.length >= 468
    /\ Gt(extracted.features.jaw.width, Zero)
    /\ extracted.features.jaw.lowerFaceRatio = Zero
    /\ extractedScores # Pending
    /\ IsFinite(extractedScores.jaw)
    /\ Le(extractedScores.jaw, Whole(70))

(***************************************************************************)
(* Properties of the quality gate                                          *)
(***************************************************************************)
\* C1: validateImage of an empty landmark list returns, whatever the image
\* and the thresholds, a result with isValid false, confidence 0 and exactly
\* one issue, no_face_detected of severity high.
C1_EmptyLandmarksNoFace ==
    (qualityResult # Pending /\ qualityInput.landmarkCount = 0) =>
        /\ ~qualityResult.thrown
        /\ qualityResult.isValid = FALSE
        /\ qualityResult.confidence = Zero
        /\ Len(qualityResult.issues) = 1
        /\ qualityResult.issues[1].type = "no_face_detected"
        /\ qualityResult.issues[1].severity = "high"

\* An empty list with an image that cannot be analysed, under other
\* thresholds than the default ones.
C1_Witness ==
    /\ qualityResult # Pending
    /\ qualityInput.landmarkCount = 0
    /\ qualityInput.image.thrown
    /\ thresholds = STUDIO_QUALITY_THRESHOLDS
    /\ ~qualityResult.thrown

\* C2: a returned result has isValid true exactly when none of its issues
\* has severity high.
C2_ValidIffNoHighIssue ==
    (qualityResult # Pending /\ ~qualityResult.thrown) =>
        (qualityResult.isValid <=>
            \A k \in 1..Len(qualityResult.issues) :
                qualityResult.issues[k].severity # "high")

\* A valid result that nevertheless lists medium and low issues.
C2_Witness ==
    /\ qualityResult # Pending
    /\ ~qualityResult.thrown
    /\ qualityResult.isValid
    /\ \E k \in 1..Len(qualityResult.issues) : qualityResult.issues[k].severity = "medium"
    /\ \E k \in 1..Len(qualityResult.issues) : qualityResult.issues[k].severity = "low"

\* 100 - 30 per high - 15 per medium - 5 per low issue, plus the bonuses.
RawConfidence ==
    100 - 30 * CountSeverity(qualityResult.issues, "high")
        - 15 * CountSeverity(qualityResult.issues, "medium")
        - 5 * CountSeverity(qualityResult.issues, "low")
        + (IF Gt(qualityInput.image.contrast, Mul(Num(3, 2), thresholds.contrast.min))
           THEN 5 ELSE 0)
        + (IF Lt(qualityInput.image.blur, Mul(Num(1, 2), thresholds.blur.max))
           THEN 5 ELSE 0)
        + (IF Gt(qualityInput.face.completeness, Num(95, 100)) THEN 10 ELSE 0)
        + (IF Gt(qualityInput.face.symmetry, Num(9, 10)) THEN 5 ELSE 0)

\* C3: for a non-empty landmark list the confidence of a returned result is
\* the raw confidence clamped to [0, 100], an integer.
C3_ConfidenceFormula ==
    (qualityResult # Pending /\ ~qualityResult.thrown /\ qualityInput.landmarkCount > 0) =>
        /\ qualityResult.confidence =
              Whole(IF RawConfidence < 0 THEN 0
                    ELSE IF RawConfidence > 100 THEN 100 ELSE RawConfidence)
        /\ IsScore(qualityResult.confidence)

\* A result whose penalties exceed 100, so the lower clamp acts, with a
\* bonus granted at the same time.
C3_Witness ==
    /\ qualityResult # Pending
    /\ ~qualityResult.thrown
    /\ qualityInput.landmarkCount > 0
    /\ RawConfidence < 0
    /\ Gt(qualityInput.face.symmetry, Num(9, 10))
    /\ qualityResult.confidence = Zero

\* A result without issues whose bonuses lift the raw confidence over 100.
C3_WitnessUpper ==
    /\ qualityResult # Pending
    /\ ~qualityResult.thrown
    /\ qualityInput.landmarkCount > 0
    /\ RawConfidence = 125
    /\ qualityResult.confidence = Whole(100)

\* C12: an exception raised inside validateImage after the check for an
\* empty list (no canvas context, a pixel read that fails, a landmark list
\* too short for the indices read) is thrown as the error with code
\* ANALYSIS_FAILED that carries the cause in details, and no result is
\* returned; validateImage throws in no other case.
C12_FailuresAreAnalysisFailed ==
    qualityResult # Pending =>
        LET raised == /\ qualityInput.landmarkCount > 0
                      /\ qualityInput.image.thrown \/ qualityInput.face.thrown
        IN  /\ qualityResult.thrown <=> raised
            /\ raised =>
                  /\ qualityResult.code = "ANALYSIS_FAILED"
                  /\ qualityResult.details =
                        (IF qualityInput.image.thrown THEN qualityInput.image.error
                         ELSE qualityInput.face.error)
                  /\ DOMAIN qualityResult \cap
                        {"isValid", "issues", "confidence", "recommendations"} = {}

\* The ten landmarks of the scenario with an image that analyses well: the
\* face analysis finds no landmark 10 and the call throws.
C12_Witness ==
    /\ qualityResult # Pending
    /\ qualityInput.landmarkCount = 10
    /\ ~qualityInput.image.thrown
    /\ qualityResult.thrown
    /\ qualityResult.details = "Landmark at index not found"

\* The number of issues of one type, severity and message.
CountIssues(type, severity, message) ==
    Cardinality({k \in 1..Len(qualityResult.issues) :
                    /\ qualityResult.issues[k].type = type
                    /\ qualityResult.issues[k].severity = severity
                    /\ qualityResult.issues[k].message = message})

\* 1 when the check is breached, 0 when it is not.
Breached(check) == IF check THEN 1 ELSE 0

\* A result of validateImage for a non-empty landmark list.
ReturnedForFace ==
    /\ qualityResult # Pending
    /\ ~qualityResult.thrown
    /\ qualityInput.landmarkCount > 0

\* The width of the face is outside [minWidth, maxWidth].
WidthBreach ==
    \/ Lt(qualityInput.face.size.width, thresholds.faceSize.minWidth)
    \/ Gt(qualityInput.face.size.width, thresholds.faceSize.maxWidth)

\* The height of the face is outside [minHeight, maxHeight].
HeightBreach ==
    \/ Lt(qualityInput.face.size.height, thresholds.faceSize.minHeight)
    \/ Gt(qualityInput.face.size.height, thresholds.faceSize.maxHeight)

\* The issues every breached check other than the face size accounts for.
IssuesBesideFaceSize ==
    LET image == qualityInput.image
        face  == qualityInput.face
        dark  == Breached(Lt(image.brightness, thresholds.brightness.min))
        light == Breached(Gt(image.brightness, thresholds.brightness.max))
        flat  == Breached(Lt(image.contrast, thresholds.contrast.min))
        soft  == Breached(Gt(image.blur, thresholds.blur.max))
        yaw   == Breached(Gt(JsAbs(face.angle.yaw), thresholds.faceAngle.maxYaw))
        pitch == Breached(Gt(JsAbs(face.angle.pitch), thresholds.faceAngle.maxPitch))
        roll  == Breached(Gt(JsAbs(face.angle.roll), thresholds.faceAngle.maxRoll))
        away  == Breached(Gt(face.position.offsetFromCenter,
                             thresholds.facePosition.centerTolerance))
        cut   == Breached(Lt(face.completeness, Num(8, 10)))
    IN  /\ CountIssues("brightness", "medium", "too dark") = dark
        /\ CountIssues("brightness", "medium", "too bright") = light
        /\ dark + light <= 1
        /\ CountIssues("contrast", "low", "low contrast") = flat
        /\ CountIssues("blur", "high", "blurry") = soft
        /\ CountIssues("face_angle", "medium", "yaw") = yaw
        /\ CountIssues("face_angle", "medium", "pitch") = pitch
        /\ CountIssues("face_angle", "low", "roll") = roll
        /\ CountIssues("face_position", "low", "center") = away
        /\ CountIssues("partial_face", "high", "cut off") = cut
        /\ "multiple_faces" \notin IssueTypes(qualityResult.issues)
        /\ Len(qualityResult.issues) =
              dark + light + flat + soft + yaw + pitch + roll + away + cut
              + Cardinality({k \in 1..Len(qualityResult.issues) :
                                qualityResult.issues[k].type = "face_size"})

\* The face_size issues of the result, all of severity medium.
FaceSizeIssues ==
    CountIssues("face_size", "medium", "move closer")
    + CountIssues("face_size", "medium", "move further")

\* C14: for non-empty landmarks the issue list holds exactly the breached
\* checks: one brightness issue (medium) iff brightness is below min or
\* above max, contrast (low) iff below min, blur (high) iff above max, one
\* face_angle issue each for yaw (medium), pitch (medium) and roll (low)
\* beyond their limit, one face_size issue (medium) iff a face size limit is
\* breached, face_position (low) iff the offset exceeds the tolerance,
\* partial_face (high) iff completeness is below 0.8, never multiple_faces.
C14_IssuesAreTheBreachedChecks ==
    ReturnedForFace =>
        /\ IssuesBesideFaceSize
        /\ FaceSizeIssues = Breached(WidthBreach \/ HeightBreach)
        /\ FaceSizeIssues =
              Cardinality({k \in 1..Len(qualityResult.issues) :
                              qualityResult.issues[k].type = "face_size"})

\* What holds of the issue list: as C14, with the face_size issue raised by
\* the width alone.
C14_IssuesAreTheComparedChecks ==
    ReturnedForFace =>
        /\ IssuesBesideFaceSize
        /\ FaceSizeIssues = Breached(WidthBreach)
        /\ FaceSizeIssues =
              Cardinality({k \in 1..Len(qualityResult.issues) :
                              qualityResult.issues[k].type = "face_size"})

\* C15: a face whose height is below minHeight or above maxHeight produces
\* a face_size issue of severity medium.
C15_HeightBreachIsFaceSizeIssue ==
    (ReturnedForFace /\ HeightBreach) =>
        \E k \in 1..Len(qualityResult.issues) :
            /\ qualityResult.issues[k].type = "face_size"
            /\ qualityResult.issues[k].severity = "medium"

\* The place of a guidance string in the fixed order.
GuidanceRank(recommendation) ==
    CASE recommendation = "lighting" -> 1
      [] recommendation = "angle" -> 2
      [] recommendation = "size" -> 3
      [] recommendation = "focus" -> 4
      [] OTHER -> 5

\* C16: the recommendations hold one guidance string per distinct issue
\* type present among brightness or poor_lighting, face_angle, face_size and
\* blur, never one per occurrence, at most four of them, in the fixed order
\* lighting, angle, size, blur.
C16_OneRecommendationPerIssueType ==
    (qualityResult # Pending /\ ~qualityResult.thrown) =>
        LET recommendations == qualityResult.recommendations
            types == IssueTypes(qualityResult.issues)
            Times(r) == Cardinality({k \in 1..Len(recommendations) : recommendations[k] = r})
        IN  /\ Times("lighting") = Breached(types \cap {"brightness", "poor_lighting"} # {})
            /\ Times("angle") = Breached("face_angle" \in types)
            /\ Times("size") = Breached("face_size" \in types)
            /\ Times("focus") = Breached("blur" \in types)
            /\ Times("lighting") + Times("angle") + Times("size") + Times("focus") <= 4
            /\ \A k \in 1..Len(recommendations) :
                  recommendations[k] \in {"lighting", "angle", "size", "focus", "suitable"}
            /\ \A k \in 1..(Len(recommendations) - 1) :
                  GuidanceRank(recommendations[k]) < GuidanceRank(recommendations[k + 1])

\* A result with the three face_angle issues (yaw, pitch and roll) and all
\* four guidance strings.
C16_Witness ==
    /\ ReturnedForFace
    /\ CountIssues("face_angle", "medium", "yaw") = 1
    /\ CountIssues("face_angle", "medium", "pitch") = 1
    /\ CountIssues("face_angle", "low", "roll") = 1
    /\ qualityResult.recommendations = <<"lighting", "angle", "size", "focus">>

\* C17: the positive recommendation is emitted exactly when the issue list
\* is empty and isValid is true; a result that carries any issue never
\* contains it.
C17_PositiveOnlyWithoutIssues ==
    (qualityResult # Pending /\ ~qualityResult.thrown) =>
        LET positive == \E k \in 1..Len(qualityResult.recommendations) :
                            qualityResult.recommendations[k] = "suitable"
        IN  positive <=> (Len(qualityResult.issues) = 0 /\ qualityResult.isValid)

\* What the code does: the positive message is emitted exactly when the
\* result is valid and no guidance string was added.
C17_PositiveWithoutGuidance ==
    (qualityResult # Pending /\ ~qualityResult.thrown) =>
        LET positive == \E k \in 1..Len(qualityResult.recommendations) :
                            qualityResult.recommendations[k] = "suitable"
        IN  positive <=>
               /\ qualityResult.isValid
               /\ IssueTypes(qualityResult.issues)
                     \cap {"brightness", "poor_lighting", "face_angle", "face_size", "blur"} = {}

\* Yaw, pitch and roll are 0, completeness is 1, the face size is within
\* its band, the offset is 0 and the image metrics are within thresholds.
PerfectCapture ==
    LET image == qualityInput.image
        face  == qualityInput.face
    IN  /\ ~image.thrown
        /\ ~face.thrown
        /\ face.angle.yaw = Zero
        /\ face.angle.pitch = Zero
        /\ face.angle.roll = Zero
        /\ face.completeness = One
        /\ ~WidthBreach
        /\ ~HeightBreach
        /\ face.position.offsetFromCenter = Zero
        /\ Le(thresholds.brightness.min, image.brightness)
        /\ Le(image.brightness, thresholds.brightness.max)
        /\ Ge(image.contrast, thresholds.contrast.min)
        /\ Le(image.blur, thresholds.blur.max)

\* C20: for a perfect capture validateImage returns isValid true, an empty
\* issue list, confidence exactly 100 and the positive message as the only
\* recommendation.
C20_PerfectCaptureScores100 ==
    (qualityResult # Pending /\ qualityInput.landmarkCount > 0 /\ PerfectCapture) =>
        /\ ~qualityResult.thrown
        /\ qualityResult.isValid
        /\ qualityResult.issues = <<>>
        /\ qualityResult.confidence = Whole(100)
        /\ qualityResult.recommendations = <<"suitable">>

\* A perfect capture under the default thresholds whose bonuses add up to
\* 25, so that the clamp holds the confidence at 100.
C20_Witness ==
    /\ qualityResult # Pending
    /\ qualityInput.landmarkCount > 0
    /\ PerfectCapture
    /\ thresholds = DEFAULT_QUALITY_THRESHOLDS
    /\ RawConfidence = 125
    /\ qualityResult.confidence = Whole(100)

\* C29: under the default thresholds every result with isValid false has a
\* confidence of at most 90.
C29_RejectedConfidenceAtMost90 ==
    (/\ qualityResult # Pending
     /\ ~qualityResult.thrown
     /\ thresholds = DEFAULT_QUALITY_THRESHOLDS
     /\ ~qualityResult.isValid) =>
        Le(qualityResult.confidence, Whole(90))

\* A frame rejected for blur alone, with every other bonus earned: 90.
C29_Witness ==
    /\ qualityResult # Pending
    /\ ~qualityResult.thrown
    /\ thresholds = DEFAULT_QUALITY_THRESHOLDS
    /\ ~qualityResult.isValid
    /\ qualityInput.landmarkCount > 0
    /\ Len(qualityResult.issues) = 1
    /\ qualityResult.issues[1].type = "blur"
    /\ qualityResult.confidence = Whole(90)

(***************************************************************************)
(* Properties of the image analysis                                        *)
(***************************************************************************)
\* C13: the analysis of an image without area (width or height 0) fails
\* with the error INVALID_IMAGE and returns no metrics.
C13_ZeroAreaIsInvalidImage ==
    (imageMetrics # Pending /\ (inputImage.width = 0 \/ inputImage.height = 0)) =>
        /\ imageMetrics.thrown
        /\ imageMetrics.error = "INVALID_IMAGE"

\* What the code does there: it throws, but never an INVALID_IMAGE error.
C13_ZeroAreaThrowsDomException ==
    (imageMetrics # Pending /\ (inputImage.width = 0 \/ inputImage.height = 0)) =>
        /\ imageMetrics.thrown
        /\ imageMetrics.error \in ImageErrors

\* C19: for a uniform image of any non-zero width and height the analysis
\* yields contrast exactly 0 and blur exactly 1.
C19_UniformImageContrast0Blur1 ==
    (/\ imageMetrics # Pending
     /\ ~imageMetrics.thrown
     /\ inputImage.pattern = "uniform") =>
        /\ imageMetrics.contrast = Zero
        /\ imageMetrics.blur = One

\* The part of C19 that holds: the contrast of a uniform image is 0, and
\* its blur is 1 when the image has an interior pixel and NaN otherwise.
C19_UniformImageBlurNeedsInterior ==
    (/\ imageMetrics # Pending
     /\ ~imageMetrics.thrown
     /\ inputImage.pattern = "uniform") =>
        /\ imageMetrics.contrast = Zero
        /\ imageMetrics.blur =
              (IF inputImage.width >= 3 /\ inputImage.height >= 3 THEN One ELSE NaN)

(***************************************************************************)
(* Properties of the face analysis                                         *)
(***************************************************************************)
\* Key landmark number k lies inside the image: x and y within [0, 1].
KeyLandmarkInside(k) ==
    LET landmark == LandmarkAt(faceLandmarks, keyLandmarkIndices[k])
    IN  /\ landmark # Undefined
        /\ Ge(landmark.x, Zero) /\ Le(landmark.x, One)
        /\ Ge(landmark.y, Zero) /\ Le(landmark.y, One)

\* The visibility key landmark number k carries.
KeyVisibility(k) == VisibilityAt(faceLandmarks, keyLandmarkIndices[k])

\* C18: completeness is 1 whenever all 16 key landmarks have x and y within
\* [0, 1] and a visibility that is absent or at least 0.5, exactly 0.5
\* included.
C18_CompleteFromHalfVisibility ==
    (/\ faceMetrics # Pending
     /\ ~faceMetrics.thrown
     /\ \A k \in 1..16 :
           /\ KeyLandmarkInside(k)
           /\ (KeyVisibility(k) = Absent \/ Ge(KeyVisibility(k), Num(1, 2)))) =>
        faceMetrics.completeness = One

\* C18 amended: completeness is 1 exactly when all 16 key landmarks have x
\* and y within [0, 1] and a visibility that is absent or above 0.5; a key
\* landmark of visibility exactly 0.5 is not counted.
C18_CompleteIffAboveHalfVisibility ==
    (faceMetrics # Pending /\ ~faceMetrics.thrown) =>
        (faceMetrics.completeness = One <=>
            \A k \in 1..16 :
                /\ KeyLandmarkInside(k)
                /\ (KeyVisibility(k) = Absent \/ Gt(KeyVisibility(k), Num(1, 2))))

\* A face whose key landmarks are all inside the image, two of them with a
\* visibility of 0.9, analysed as complete.
C18_Witness ==
    /\ faceMetrics # Pending
    /\ ~faceMetrics.thrown
    /\ faceLandmarks.dimmed = {33, 200}
    /\ faceLandmarks.visibility = Num(9, 10)
    /\ \A k \in 1..16 : KeyLandmarkInside(k)
    /\ faceMetrics.completeness = One

\* The face analysis returns metrics only for lists of at least 467
\* landmarks without an undefined element.
FaceMetricsNeedFullMesh ==
    (faceMetrics # Pending /\ ~faceMetrics.thrown) =>
        /\ faceLandmarks.length >= 467
        /\ faceLandmarks.missing = {}

(***************************************************************************)
(* Properties of the landmarker                                            *)
(***************************************************************************)
\* C23: after dispose() has returned and until initialize() is called again
\* the instance stays uninitialized, detectLandmarks throws, and no
\* landmarker made for the instance is left open, also when an earlier
\* initialize() was still pending at the dispose().
C23_DisposedStaysUninitialized ==
    \A i \in Instances :
        (landmarkers[i] # Unbuilt /\ lmHistory[i].disposed) =>
            /\ ~landmarkers[i].isInitialized
            /\ landmarkers[i].faceLandmarker = Null
            /\ detectLandmarks(landmarkers[i], "face").thrown
            /\ \A run \in openHandles : loads[run].owner # i

\* What holds of dispose(): the instance is uninitialized for as long as no
\* doInitialize run started before the dispose() completes.
C23_DisposedUntilPendingLoadCompletes ==
    \A i \in Instances :
        (/\ landmarkers[i] # Unbuilt
         /\ lmHistory[i].disposed
         /\ \A run \in Runs : loads[run].owner = i => loads[run].pc # "fulfilled") =>
            /\ ~landmarkers[i].isInitialized
            /\ landmarkers[i].faceLandmarker = Null

\* C24: between two dispose() calls doInitialize runs at most once on an
\* instance, however many initialize() calls are made: all the calls that
\* wait at all wait for the same promise.
C24_AtMostOneLoad ==
    \A i \in Instances :
        /\ lmHistory[i].loads <= 1
        /\ Cardinality(lmHistory[i].awaited) <= 1

\* Three initialize() calls without a dispose(): one started the load, one
\* was handed its promise, and the last, after the load succeeded, returned
\* at once.
C24_Witness ==
    /\ lmHistory[1].calls = 3
    /\ lmHistory[1].joined >= 1
    /\ lmHistory[1].loads = 1
    /\ landmarkers[1].isInitialized
    /\ lmReturned = [op |-> "initialize", instance |-> 1, awaits |-> Null]

(***************************************************************************)
(* Properties of the capture component                                     *)
(***************************************************************************)
\* C21: an empty detection result is never passed on: when detectLandmarks
\* has returned no landmarks, calculateFacialFeatures and
\* calculateQualityScores are not called and the capture has ended in error,
\* with onError called and onCapture not.
C21_EmptyDetectionEndsInError ==
    capture.detected = "none" =>
        /\ ~capture.featuresCalled
        /\ ~capture.scoresCalled
        /\ capture.settled
        /\ capture.statuses[Len(capture.statuses)] = "error"
        /\ capture.onError = 1
        /\ capture.onCapture = 0

\* A capture in which no face was detected has ended, and the component
\* shows the error.
C21_Witness ==
    /\ capture.kind = "frame"
    /\ capture.detected = "none"
    /\ capture.settled
    /\ ui.mounted
    /\ ui.captureState.status = "error"
    /\ app.error = "no face"

\* C25: once the initialization has failed it is not attempted again
\* without a dispose(): the rejected promise stays stored, so that a later
\* initialize() starts nothing and waits for it; and in Capture.tsx
\* isInitialized stays false, no second load is started and no camera, for
\* the rest of the mount, also after the retry button.
C25_FailedInitializationIsFinal ==
    \A run \in Runs :
        (component = "Capture.tsx" /\ loads[run].pc = "rejected") =>
            /\ ~ui.isInitialized
            /\ \A other \in Runs \ {run} : loads[other] = UnusedRun
            /\ \A s \in Streams : streams[s] = UnusedStream
            /\ ui.captureState.status \in {"error", "idle"}
            /\ ~lmHistory[loads[run].owner].disposed =>
                   /\ ~landmarkers[loads[run].owner].isInitialized
                   /\ initialize(landmarkers[loads[run].owner], NextRun) =
                          [this |-> landmarkers[loads[run].owner], started |-> FALSE,
                           awaits |-> run]

\* The initialization of Capture.tsx has failed and the retry button has
\* been pressed: the component is idle, and its start button disabled.
C25_Witness ==
    /\ component = "Capture.tsx"
    /\ loads[1].pc = "rejected"
    /\ ui.mounted
    /\ ui.captureState.status = "idle"
    /\ ~ui.isInitialized
    /\ app.error = "Failed to initialize components"

\* C26: whenever isInitialized is true in the mounted component and a
\* capture or file is processed, landmarkerRef refers to an initialized
\* landmarker, so that detectLandmarks does not throw "MediaPipe not
\* initialized".
C26_InitializedMeansLandmarkerReady ==
    capture.flagged => capture.detected # "MediaPipe not initialized"

\* What holds of Capture.tsx, whose effect has no dependencies: while it is
\* mounted with isInitialized true, the ref holds an initialized landmarker.
C26_CaptureTsxLandmarkerReady ==
    (component = "Capture.tsx" /\ ui.mounted /\ ui.isInitialized) =>
        /\ ui.landmarkerRef # Null
        /\ landmarkers[ui.landmarkerRef].isInitialized
        /\ C26_InitializedMeansLandmarkerReady

\* C27: the tracks of every stream startCamera has obtained are stopped
\* before the component drops its reference to it: a stream with live tracks
\* is the stream of the state of the mounted component, or the one
\* startCamera is attaching to the video element.
C27_DroppedStreamsAreStopped ==
    \A s \in Streams :
        streams[s].tracks = "live" =>
            \/ ui.mounted /\ ui.captureState.stream = s
            \/ streams[s].request = "metadata"

\* The ways a capture moves through the statuses.
CaptureTrails ==
    {<<"capturing", "processing", "complete">>, <<"capturing", "processing", "error">>,
     <<"capturing", "error">>}

\* C28 (what holds in every state): a capture that has settled went from
\* capturing, through processing unless it failed before the detection, to
\* complete with exactly one onCapture call or to error with exactly one
\* onError call, never both; the component, if mounted and processing
\* nothing new, does not show capturing or processing.
C28_CaptureEndsOnce ==
    /\ capture.kind # "none" => capture.onCapture + capture.onError <= 1
    /\ capture.kind = "frame" => capture.statuses[1] = "capturing"
    /\ (capture.kind = "frame" /\ capture.settled) =>
           /\ capture.statuses \in CaptureTrails
           /\ capture.onCapture + capture.onError = 1
           /\ capture.onCapture = 1 <=>
                  capture.statuses[Len(capture.statuses)] = "complete"
           /\ capture.onError = 1 <=>
                  capture.statuses[Len(capture.statuses)] = "error"
           /\ (ui.mounted /\ pending = "none") =>
                  ui.captureState.status \notin {"capturing", "processing"}

\* C28 (what holds of every step): a call of captureImage when the status is
\* not camera_active changes nothing.
C28_IdleCallDoesNothing ==
    (captureTick' # captureTick /\ ui.captureState.status # "camera_active") =>
        UNCHANGED <<component, ui, streams, app, capture, pending, landmarkerVars>>

C22_ResolvesToOrientation ==
    /\ exifPc = "resolved" =>
           /\ exifResult.orientation \in 1..8
           /\ (\/ ~exifFile.readable
               \/ Len(exifFile.bytes) < 2
               \/ exifFile.bytes[1] # 255
               \/ exifFile.bytes[2] # 216) => exifResult.orientation = 1
    /\ exifPc = "scanning" => markerOffset >= 2
    /\ exifPc \in {"called", "scanning"} => exifResult = Pending

\* C22 (what holds of every step): every turn of the marker loop ends the
\* call or moves the offset on by at least 2, so that the loop ends.
C22_ScanMovesOn ==
    (exifPc = "scanning" /\ exifPc' = "scanning") => markerOffset' >= markerOffset + 2

\* C22: extractEXIFOrientation never fails: for every file the marker loop
\* terminates and the call resolves to an integer from 1 to 8, 1 being the
\* fallback.
C22_ExtractionAlwaysResolves == []C22_ResolvesToOrientation /\ [][C22_ScanMovesOn]_vars

\* A file whose EXIF segment follows another segment has resolved to the
\* orientation 6 stored in it.
C22_Witness ==
    /\ exifPc = "resolved"
    /\ exifResult = [orientation |-> 6]
    /\ markerOffset > 2
====
